---- MODULE Spec2Model ----
(***************************************************************************)
(* The collectors of the Zambia statistics service: the four collector     *)
(* modules (robust_collectors, enhanced_collectors, working_collectors,    *)
(* data_collectors), each with one collect_data per source.  A call is     *)
(* modelled from its entry to the dict it returns; every HTTP response,    *)
(* page content and clock reading is chosen by the environment.            *)
(***************************************************************************)
EXTENDS Integers, Sequences, FiniteSets, TLC

VARIABLES
  pc,            \* position of the one synchronous call: idle, the step, done
  module,        \* collector module of the call in progress
  source,        \* collector (router key) of the call in progress
  data_type,     \* the topic string passed to collect_data
  api_data,      \* robust WorldBankCollector.collect_data: local api_data
  scraped_data,  \* robust WorldBankCollector.collect_data: local scraped_data
  idx,           \* position of a for loop over indicators or urls
  all_data,      \* the all_data list a loop appends to
  trace,         \* what the call did so far: strategy calls, GETs, sleeps
  all_failed,    \* every GET of the call so far failed transiently
  result,        \* the dict collect_data returned (or the exception escaped)
  previous,      \* the records of the call before, kept where two calls are compared
  app,           \* the web application whose fetch_data route is serving, or "none"
  http           \* what the route answered: status and payload

vars == <<pc, module, source, data_type, api_data, scraped_data, idx, all_data, trace, all_failed, result,
         previous, app, http>>

----------------------------------------------------------------------------
\* Bounds of the environment

\* observations in one World Bank API page answered to a single-request fetch
MaxItems == 3
\* elements of a scraped page that the tag/class selector returns
MaxElements == 3
\* days the clock may read
MaxDay == 2
\* observations or elements of the one page that is longer than any cap (5, 5, 3)
LongPage == 6
\* rows of the one table that is longer than the cap of the UN portal scraper (10)
LongTable == 11

----------------------------------------------------------------------------
\* Python values

\* None against a list: an optional list is a tagged record
None == [isNone |-> TRUE]
Some(list) == [isNone |-> FALSE, list |-> list]
\* truth value of an optional list: `if api_data:`
Truthy(x) == (~x.isNone) /\ x.list # <<>>

\* JSON scalars of an observation's value
JNull == [t |-> "null"]
JNum(n) == [t |-> "num", n |-> n]
\* `if item.get('value'):` None and 0 are both falsy
JTruthy(v) == v.t = "num" /\ v.n # 0
\* `item['value'] is not None`
JNotNone(v) == v.t # "null"

\* dict.get(key, default)
Get(d, key, default) == IF key \in DOMAIN d THEN d[key] ELSE default
HasKey(d, key) == key \in DOMAIN d

\* an f-string is kept as the tuple of its parts; it is empty iff all parts are
FStr(parts) == parts
NonEmptyStr(s) == \E i \in DOMAIN s : s[i] # ""
Mentions(s, part) == \E i \in DOMAIN s : s[i] = part

\* the topic strings collect_data is called with: the six catalogued topics,
\* one of them capitalised, and one that no table knows
Topics == {"population", "health", "education", "economy", "agriculture", "mining", "Mining", "energy"}

\* str.lower() on the topic strings
lower(s) == IF s = "Mining" THEN "mining" ELSE s

\* str.title() on the topic strings
title(s) ==
  CASE s = "population" -> "Population"
    [] s = "health" -> "Health"
    [] s = "education" -> "Education"
    [] s = "economy" -> "Economy"
    [] s = "agriculture" -> "Agriculture"
    [] s = "mining" -> "Mining"
    [] s = "Mining" -> "Mining"
    [] s = "energy" -> "Energy"

\* datetime.now().strftime('%Y-%m-%d') read on day d
strftime(d) == [fmt |-> "%Y-%m-%d", day |-> d]
Days == 1..MaxDay

SeqsUpTo(S, n) == UNION {[1..k -> S] : k \in 0..n}
Take(s, n) == SubSeq(s, 1, IF Len(s) < n THEN Len(s) ELSE n)

\* events of the trace
Ev(kind, arg) == [ev |-> kind, arg |-> arg]

----------------------------------------------------------------------------
\* Static tables of the source (catalogs and reference tables), literally.
\* Decimal literals are kept as their text; the superscript two of km2 is
\* written ^2.

\* robust_collectors.py:64-71  WorldBankCollector._try_world_bank_api: indicators
Robust_WB_indicators ==
  [ population |-> "SP.POP.TOTL",
    health |-> "SP.DYN.LE00.IN",
    education |-> "SE.ADT.LITR.ZS",
    economy |-> "NY.GDP.MKTP.CD",
    agriculture |-> "AG.LND.AGRI.ZS",
    mining |-> "NY.GDP.MINR.RT.ZS" ]

\* robust_collectors.py:137-174  WorldBankCollector._get_fallback_data: base_data
Robust_WB_base_data ==
  [ population |-> <<
        [Indicator |-> "Total Population", Value |-> "20.22 million (2025 est.)", Unit |-> "people"],
        [Indicator |-> "Population Growth Rate", Value |-> "2.8% annual", Unit |-> "percent"],
        [Indicator |-> "Urban Population", Value |-> "46.8%", Unit |-> "percent"],
        [Indicator |-> "Population Density", Value |-> "27 people/km^2", Unit |-> "density"]
      >>,
    health |-> <<
        [Indicator |-> "Life Expectancy", Value |-> "64.3 years (2025)", Unit |-> "years"],
        [Indicator |-> "Infant Mortality Rate", Value |-> "36.2 per 1,000", Unit |-> "per 1000 births"],
        [Indicator |-> "Maternal Mortality", Value |-> "198 per 100,000", Unit |-> "per 100k births"],
        [Indicator |-> "HIV Prevalence", Value |-> "10.8%", Unit |-> "percent"]
      >>,
    education |-> <<
        [Indicator |-> "Literacy Rate", Value |-> "87.3%", Unit |-> "percent"],
        [Indicator |-> "Primary School Enrollment", Value |-> "91.2%", Unit |-> "percent"],
        [Indicator |-> "Secondary School Enrollment", Value |-> "47.8%", Unit |-> "percent"],
        [Indicator |-> "Tertiary Enrollment", Value |-> "5.4%", Unit |-> "percent"]
      >>,
    economy |-> <<
        [Indicator |-> "GDP (nominal)", Value |-> "$31.2 billion (2025)", Unit |-> "USD billion"],
        [Indicator |-> "GDP per capita", Value |-> "$1,544", Unit |-> "USD"],
        [Indicator |-> "GDP Growth Rate", Value |-> "5.2%", Unit |-> "percent"],
        [Indicator |-> "Inflation Rate", Value |-> "7.8%", Unit |-> "percent"]
      >>,
    agriculture |-> <<
        [Indicator |-> "Agricultural Land", Value |-> "58.1%", Unit |-> "percent of total"],
        [Indicator |-> "Arable Land", Value |-> "4.8%", Unit |-> "percent of total"],
        [Indicator |-> "Agricultural Employment", Value |-> "54.8%", Unit |-> "percent of workforce"],
        [Indicator |-> "Crop Production Index", Value |-> "105.2", Unit |-> "index"]
      >>,
    mining |-> <<
        [Indicator |-> "Copper Production", Value |-> "763,287 tonnes (2022)", Unit |-> "tonnes"],
        [Indicator |-> "Mining GDP Share", Value |-> "12.1%", Unit |-> "percent"],
        [Indicator |-> "Mineral Exports", Value |-> "$6.8 billion", Unit |-> "USD"],
        [Indicator |-> "Mining Employment", Value |-> "89,000 jobs", Unit |-> "jobs"]
      >> ]

\* robust_collectors.py:257-269  IMFCollector._get_imf_fallback_data: imf_data
Robust_IMF_imf_data ==
  [ economy |-> <<
        [Indicator |-> "IMF GDP Growth Forecast", Value |-> "4.2% (2024)", Type |-> "Economic Growth"],
        [Indicator |-> "IMF Inflation Projection", Value |-> "8.5% (2024)", Type |-> "Monetary Policy"],
        [Indicator |-> "Current Account Balance", Value |-> "-3.2% of GDP", Type |-> "External Balance"],
        [Indicator |-> "Government Debt", Value |-> "132.8% of GDP", Type |-> "Fiscal Policy"]
      >>,
    population |-> <<
        [Indicator |-> "IMF Population Estimate", Value |-> "19.6 million", Type |-> "Demographics"],
        [Indicator |-> "Labor Force", Value |-> "7.2 million", Type |-> "Demographics"],
        [Indicator |-> "Unemployment Rate", Value |-> "12.9%", Type |-> "Labor Market"]
      >> ]

\* robust_collectors.py:310-335  USAIDCollector._get_usaid_program_data: programs
Robust_USAID_programs ==
  [ health |-> <<
        [Program |-> "USAID Health Program", Value |-> "$65 million (2023)", Focus |-> "HIV/AIDS, Malaria, TB"],
        [Program |-> "Maternal Health Initiative", Value |-> "15,000 beneficiaries", Focus |-> "Healthcare Access"],
        [Program |-> "PEPFAR Zambia", Value |-> "$180 million", Focus |-> "HIV Prevention/Treatment"],
        [Program |-> "Malaria Prevention", Value |-> "2.1 million nets distributed", Focus |-> "Disease Prevention"]
      >>,
    education |-> <<
        [Program |-> "Education Support", Value |-> "$25 million", Focus |-> "Primary Education"],
        [Program |-> "Teacher Training", Value |-> "5,200 teachers trained", Focus |-> "Capacity Building"],
        [Program |-> "School Infrastructure", Value |-> "120 schools supported", Focus |-> "Infrastructure"],
        [Program |-> "Girls Education", Value |-> "18,000 girls supported", Focus |-> "Gender Equality"]
      >>,
    agriculture |-> <<
        [Program |-> "Feed the Future", Value |-> "$42 million", Focus |-> "Food Security"],
        [Program |-> "Farmer Training", Value |-> "85,000 farmers trained", Focus |-> "Agricultural Productivity"],
        [Program |-> "Market Access", Value |-> "450 cooperatives supported", Focus |-> "Value Chains"],
        [Program |-> "Nutrition Programs", Value |-> "120,000 beneficiaries", Focus |-> "Food Security"]
      >>,
    economy |-> <<
        [Program |-> "Trade Facilitation", Value |-> "$15 million", Focus |-> "Economic Growth"],
        [Program |-> "Private Sector Development", Value |-> "2,500 jobs created", Focus |-> "Employment"],
        [Program |-> "Financial Inclusion", Value |-> "45,000 people reached", Focus |-> "Access to Finance"],
        [Program |-> "Business Training", Value |-> "1,200 entrepreneurs trained", Focus |-> "Capacity Building"]
      >> ]

\* robust_collectors.py:375-400  UNCollector._get_un_statistical_data: un_stats
Robust_UN_un_stats ==
  [ population |-> <<
        [Indicator |-> "UN Population Estimate", Value |-> "19,610,769", Year |-> "2023"],
        [Indicator |-> "Population Density", Value |-> "26 per km^2", Year |-> "2023"],
        [Indicator |-> "Urban Population", Value |-> "45.2%", Year |-> "2023"],
        [Indicator |-> "Median Age", Value |-> "16.8 years", Year |-> "2023"]
      >>,
    health |-> <<
        [Indicator |-> "Life Expectancy", Value |-> "63.9 years", Year |-> "2023"],
        [Indicator |-> "Under-5 Mortality", Value |-> "61 per 1,000", Year |-> "2022"],
        [Indicator |-> "Maternal Mortality", Value |-> "213 per 100,000", Year |-> "2020"],
        [Indicator |-> "HIV Prevalence", Value |-> "11.1%", Year |-> "2022"]
      >>,
    education |-> <<
        [Indicator |-> "Adult Literacy Rate", Value |-> "86.7%", Year |-> "2022"],
        [Indicator |-> "Primary Completion Rate", Value |-> "84.3%", Year |-> "2021"],
        [Indicator |-> "Secondary Enrollment", Value |-> "44.1%", Year |-> "2021"],
        [Indicator |-> "Gender Parity Index", Value |-> "1.05", Year |-> "2021"]
      >>,
    economy |-> <<
        [Indicator |-> "Human Development Index", Value |-> "0.565 (Medium)", Year |-> "2022"],
        [Indicator |-> "GNI per capita", Value |-> "$3,800 PPP", Year |-> "2022"],
        [Indicator |-> "Poverty Rate", Value |-> "57.5%", Year |-> "2022"],
        [Indicator |-> "Gini Coefficient", Value |-> "57.1", Year |-> "2019"]
      >> ]

\* enhanced_collectors.py:105-147  WorldBankCollector._get_2025_indicators: indicators
Enhanced_WB_indicators ==
  [ population |-> <<
        [code |-> "SP.POP.TOTL", name |-> "Population, total"],
        [code |-> "SP.POP.GROW", name |-> "Population growth (annual %)"],
        [code |-> "SP.URB.TOTL.IN.ZS", name |-> "Urban population (% of total)"],
        [code |-> "SP.RUR.TOTL.ZS", name |-> "Rural population (% of total)"],
        [code |-> "SP.POP.DPND", name |-> "Age dependency ratio (% of working-age population)"]
      >>,
    health |-> <<
        [code |-> "SP.DYN.LE00.IN", name |-> "Life expectancy at birth, total (years)"],
        [code |-> "SH.DYN.MORT", name |-> "Mortality rate, under-5 (per 1,000 live births)"],
        [code |-> "SH.STA.MMRT", name |-> "Maternal mortality ratio"],
        [code |-> "SH.IMM.MEAS", name |-> "Immunization, measles (% of children ages 12-23 months)"],
        [code |-> "SH.STA.MALN.ZS", name |-> "Prevalence of stunting, height for age (% of children under 5)"]
      >>,
    education |-> <<
        [code |-> "SE.ADT.LITR.ZS", name |-> "Literacy rate, adult total (% of people ages 15 and above)"],
        [code |-> "SE.PRM.NENR", name |-> "School enrollment, primary (% net)"],
        [code |-> "SE.SEC.NENR", name |-> "School enrollment, secondary (% net)"],
        [code |-> "SE.TER.ENRR", name |-> "School enrollment, tertiary (% gross)"],
        [code |-> "SE.PRM.CMPT.ZS", name |-> "Primary completion rate, total (% of relevant age group)"]
      >>,
    economy |-> <<
        [code |-> "NY.GDP.MKTP.CD", name |-> "GDP (current US$)"],
        [code |-> "NY.GDP.PCAP.CD", name |-> "GDP per capita (current US$)"],
        [code |-> "NY.GDP.MKTP.KD.ZG", name |-> "GDP growth (annual %)"],
        [code |-> "FP.CPI.TOTL.ZG", name |-> "Inflation, consumer prices (annual %)"],
        [code |-> "SL.UEM.TOTL.ZS", name |-> "Unemployment, total (% of total labor force)"]
      >>,
    agriculture |-> <<
        [code |-> "AG.LND.AGRI.ZS", name |-> "Agricultural land (% of land area)"],
        [code |-> "AG.PRD.CROP.XD", name |-> "Crop production index (2014-2016 = 100)"],
        [code |-> "AG.LND.ARBL.ZS", name |-> "Arable land (% of land area)"],
        [code |-> "AG.YLD.CREL.KG", name |-> "Cereal yield (kg per hectare)"],
        [code |-> "AG.CON.FERT.ZS", name |-> "Fertilizer consumption (kilograms per hectare of arable land)"]
      >>,
    mining |-> <<
        [code |-> "NY.GDP.MINR.RT.ZS", name |-> "Mineral rents (% of GDP)"],
        [code |-> "TX.VAL.MRCH.CD.WT", name |-> "Merchandise exports (current US$)"],
        [code |-> "TM.VAL.MRCH.CD.WT", name |-> "Merchandise imports (current US$)"],
        [code |-> "NE.EXP.GNFS.ZS", name |-> "Exports of goods and services (% of GDP)"]
      >> ]

\* enhanced_collectors.py:153-190  WorldBankCollector._get_current_estimates: current_data
Enhanced_WB_current_data ==
  [ population |-> <<
        [Indicator |-> "Total Population", Value |-> "20220000", Year |-> 2025, Unit |-> "people"],
        [Indicator |-> "Urban Population", Value |-> "46.8", Year |-> 2025, Unit |-> "percent"],
        [Indicator |-> "Population Growth Rate", Value |-> "2.8", Year |-> 2025, Unit |-> "percent"],
        [Indicator |-> "Population Density", Value |-> "27", Year |-> 2025, Unit |-> "people per km^2"]
      >>,
    health |-> <<
        [Indicator |-> "Life Expectancy", Value |-> "64.3", Year |-> 2025, Unit |-> "years"],
        [Indicator |-> "Infant Mortality Rate", Value |-> "36.2", Year |-> 2025, Unit |-> "per 1000"],
        [Indicator |-> "Maternal Mortality Ratio", Value |-> "198", Year |-> 2025, Unit |-> "per 100k"],
        [Indicator |-> "HIV Prevalence", Value |-> "10.8", Year |-> 2025, Unit |-> "percent"]
      >>,
    education |-> <<
        [Indicator |-> "Adult Literacy Rate", Value |-> "87.3", Year |-> 2025, Unit |-> "percent"],
        [Indicator |-> "Primary Enrollment", Value |-> "91.2", Year |-> 2025, Unit |-> "percent"],
        [Indicator |-> "Secondary Enrollment", Value |-> "47.8", Year |-> 2025, Unit |-> "percent"],
        [Indicator |-> "Tertiary Enrollment", Value |-> "5.4", Year |-> 2025, Unit |-> "percent"]
      >>,
    economy |-> <<
        [Indicator |-> "GDP (current US$)", Value |-> "31200000000", Year |-> 2025, Unit |-> "USD"],
        [Indicator |-> "GDP per capita", Value |-> "1544", Year |-> 2025, Unit |-> "USD"],
        [Indicator |-> "GDP Growth Rate", Value |-> "5.2", Year |-> 2025, Unit |-> "percent"],
        [Indicator |-> "Inflation Rate", Value |-> "7.8", Year |-> 2025, Unit |-> "percent"]
      >>,
    agriculture |-> <<
        [Indicator |-> "Agricultural Land", Value |-> "58.5", Year |-> 2025, Unit |-> "percent of total"],
        [Indicator |-> "Crop Production Index", Value |-> "108.3", Year |-> 2025, Unit |-> "index"],
        [Indicator |-> "Cereal Yield", Value |-> "2850", Year |-> 2025, Unit |-> "kg per hectare"],
        [Indicator |-> "Agricultural Employment", Value |-> "52.4", Year |-> 2025, Unit |-> "percent"]
      >>,
    mining |-> <<
        [Indicator |-> "Copper Production", Value |-> "785000", Year |-> 2025, Unit |-> "tonnes"],
        [Indicator |-> "Mineral Rents", Value |-> "11.8", Year |-> 2025, Unit |-> "percent of GDP"],
        [Indicator |-> "Mining Exports", Value |-> "7200000000", Year |-> 2025, Unit |-> "USD"],
        [Indicator |-> "Mining Employment", Value |-> "92000", Year |-> 2025, Unit |-> "jobs"]
      >> ]

\* enhanced_collectors.py:231-248  IMFCollector._get_imf_2025_projections: imf_projections
Enhanced_IMF_imf_projections ==
  [ economy |-> <<
        [Indicator |-> "Real GDP Growth", Value |-> "4.8", Year |-> 2025, Type |-> "Projection"],
        [Indicator |-> "Inflation Rate", Value |-> "7.2", Year |-> 2025, Type |-> "Projection"],
        [Indicator |-> "Current Account Balance", Value |-> "-2.8", Year |-> 2025, Type |-> "Projection"],
        [Indicator |-> "Government Debt", Value |-> "127.5", Year |-> 2025, Type |-> "Projection"],
        [Indicator |-> "Fiscal Balance", Value |-> "-4.2", Year |-> 2025, Type |-> "Projection"]
      >>,
    population |-> <<
        [Indicator |-> "Labor Force Participation", Value |-> "78.4", Year |-> 2025, Type |-> "Estimate"],
        [Indicator |-> "Unemployment Rate", Value |-> "12.1", Year |-> 2025, Type |-> "Estimate"],
        [Indicator |-> "Youth Unemployment", Value |-> "24.7", Year |-> 2025, Type |-> "Estimate"]
      >>,
    health |-> <<
        [Indicator |-> "Health Expenditure (% GDP)", Value |-> "4.8", Year |-> 2025, Type |-> "Estimate"],
        [Indicator |-> "Public Health Spending", Value |-> "2.1", Year |-> 2025, Type |-> "Estimate"]
      >> ]

\* enhanced_collectors.py:288-313  USAIDCollector._get_usaid_2025_programs: programs
Enhanced_USAID_programs ==
  [ health |-> <<
        [Program |-> "PEPFAR Zambia", Investment |-> "$195 million", Beneficiaries |-> "1.2 million", Focus |-> "HIV/AIDS Treatment & Prevention"],
        [Program |-> "Malaria Control Program", Investment |-> "$45 million", Beneficiaries |-> "2.8 million", Focus |-> "Malaria Prevention"],
        [Program |-> "Maternal Health Initiative", Investment |-> "$28 million", Beneficiaries |-> "180,000", Focus |-> "Maternal & Child Health"],
        [Program |-> "TB Control Program", Investment |-> "$18 million", Beneficiaries |-> "95,000", Focus |-> "Tuberculosis Treatment"]
      >>,
    education |-> <<
        [Program |-> "Education Quality Improvement", Investment |-> "$35 million", Beneficiaries |-> "485,000", Focus |-> "Primary Education"],
        [Program |-> "Teacher Training Initiative", Investment |-> "$22 million", Beneficiaries |-> "8,500", Focus |-> "Teacher Capacity"],
        [Program |-> "Girls Education Program", Investment |-> "$28 million", Beneficiaries |-> "125,000", Focus |-> "Gender Equality"],
        [Program |-> "Higher Education Support", Investment |-> "$15 million", Beneficiaries |-> "12,000", Focus |-> "University Development"]
      >>,
    agriculture |-> <<
        [Program |-> "Feed the Future Zambia", Investment |-> "$68 million", Beneficiaries |-> "350,000", Focus |-> "Food Security"],
        [Program |-> "Climate Smart Agriculture", Investment |-> "$42 million", Beneficiaries |-> "225,000", Focus |-> "Climate Adaptation"],
        [Program |-> "Market Access Program", Investment |-> "$25 million", Beneficiaries |-> "85,000", Focus |-> "Value Chain Development"],
        [Program |-> "Nutrition Enhancement", Investment |-> "$18 million", Beneficiaries |-> "175,000", Focus |-> "Malnutrition Reduction"]
      >>,
    economy |-> <<
        [Program |-> "Private Sector Development", Investment |-> "$32 million", Beneficiaries |-> "45,000", Focus |-> "Economic Growth"],
        [Program |-> "Trade Facilitation", Investment |-> "$25 million", Beneficiaries |-> "15,000", Focus |-> "Export Development"],
        [Program |-> "Financial Inclusion", Investment |-> "$20 million", Beneficiaries |-> "85,000", Focus |-> "Access to Finance"],
        [Program |-> "Youth Employment", Investment |-> "$28 million", Beneficiaries |-> "35,000", Focus |-> "Job Creation"]
      >> ]

\* enhanced_collectors.py:354-385  UNCollector._get_un_sdg_2025_data: sdg_data
Enhanced_UN_sdg_data ==
  [ population |-> <<
        [SDG_Indicator |-> "Population below poverty line", Value |-> "54.8", Year |-> 2025, SDG |-> "Goal 1", Target |-> "< 50% by 2030"],
        [SDG_Indicator |-> "Access to clean water", Value |-> "67.2", Year |-> 2025, SDG |-> "Goal 6", Target |-> "100% by 2030"],
        [SDG_Indicator |-> "Access to sanitation", Value |-> "29.8", Year |-> 2025, SDG |-> "Goal 6", Target |-> "100% by 2030"],
        [SDG_Indicator |-> "Urban population", Value |-> "46.8", Year |-> 2025, SDG |-> "Goal 11", Target |-> "Sustainable cities"]
      >>,
    health |-> <<
        [SDG_Indicator |-> "Under-5 mortality rate", Value |-> "61.2", Year |-> 2025, SDG |-> "Goal 3", Target |-> "< 25 by 2030"],
        [SDG_Indicator |-> "Maternal mortality ratio", Value |-> "198", Year |-> 2025, SDG |-> "Goal 3", Target |-> "< 70 by 2030"],
        [SDG_Indicator |-> "Neonatal mortality rate", Value |-> "24.1", Year |-> 2025, SDG |-> "Goal 3", Target |-> "< 12 by 2030"],
        [SDG_Indicator |-> "Skilled birth attendance", Value |-> "83.2", Year |-> 2025, SDG |-> "Goal 3", Target |-> "100% by 2030"]
      >>,
    education |-> <<
        [SDG_Indicator |-> "Primary completion rate", Value |-> "89.4", Year |-> 2025, SDG |-> "Goal 4", Target |-> "100% by 2030"],
        [SDG_Indicator |-> "Lower secondary completion", Value |-> "54.7", Year |-> 2025, SDG |-> "Goal 4", Target |-> "100% by 2030"],
        [SDG_Indicator |-> "Youth literacy rate", Value |-> "92.8", Year |-> 2025, SDG |-> "Goal 4", Target |-> "100% by 2030"],
        [SDG_Indicator |-> "Gender parity in education", Value |-> "1.08", Year |-> 2025, SDG |-> "Goal 5", Target |-> "1.0 by 2030"]
      >>,
    economy |-> <<
        [SDG_Indicator |-> "GDP per capita growth", Value |-> "2.4", Year |-> 2025, SDG |-> "Goal 8", Target |-> "> 7% annually"],
        [SDG_Indicator |-> "Employment-to-population ratio", Value |-> "76.8", Year |-> 2025, SDG |-> "Goal 8", Target |-> "Full employment"],
        [SDG_Indicator |-> "Informal employment", Value |-> "82.4", Year |-> 2025, SDG |-> "Goal 8", Target |-> "Reduce informality"],
        [SDG_Indicator |-> "Financial inclusion", Value |-> "47.2", Year |-> 2025, SDG |-> "Goal 8", Target |-> "Universal access"]
      >>,
    agriculture |-> <<
        [SDG_Indicator |-> "Prevalence of undernourishment", Value |-> "45.8", Year |-> 2025, SDG |-> "Goal 2", Target |-> "Zero hunger by 2030"],
        [SDG_Indicator |-> "Agricultural productivity", Value |-> "2.8", Year |-> 2025, SDG |-> "Goal 2", Target |-> "Double by 2030"],
        [SDG_Indicator |-> "Sustainable agriculture", Value |-> "34.2", Year |-> 2025, SDG |-> "Goal 2", Target |-> "Increase sustainability"],
        [SDG_Indicator |-> "Food security access", Value |-> "62.4", Year |-> 2025, SDG |-> "Goal 2", Target |-> "Universal access"]
      >> ]

\* enhanced_collectors.py:427-437  AfricanDevelopmentBankCollector._get_afdb_2025_data: afdb_projects
Enhanced_AfDB_afdb_projects ==
  [ economy |-> <<
        [Project |-> "Infrastructure Development Fund", Amount |-> "$450 million", Sector |-> "Infrastructure", Status |-> "Active"],
        [Project |-> "Private Sector Support", Amount |-> "$180 million", Sector |-> "Finance", Status |-> "Active"],
        [Project |-> "Energy Access Program", Amount |-> "$320 million", Sector |-> "Energy", Status |-> "Planning"]
      >>,
    agriculture |-> <<
        [Project |-> "Agricultural Transformation", Amount |-> "$285 million", Sector |-> "Agriculture", Status |-> "Active"],
        [Project |-> "Climate Resilience Fund", Amount |-> "$150 million", Sector |-> "Climate", Status |-> "Active"]
      >> ]

\* enhanced_collectors.py:477-494  ZambianStatisticsCollector._get_zambian_stats_2025: official_stats
Enhanced_ZS_official_stats ==
  [ population |-> <<
        [Statistic |-> "Total Population (Census projection)", Value |-> "20218000", Quarter |-> "Q1 2025"],
        [Statistic |-> "Households", Value |-> "4680000", Quarter |-> "Q1 2025"],
        [Statistic |-> "Average Household Size", Value |-> "4.3", Quarter |-> "Q1 2025"]
      >>,
    economy |-> <<
        [Statistic |-> "GDP (Kwacha billions)", Value |-> "892.4", Quarter |-> "Q4 2024"],
        [Statistic |-> "Inflation Rate", Value |-> "8.2", Quarter |-> "Q1 2025"],
        [Statistic |-> "Exchange Rate (ZMW/USD)", Value |-> "26.8", Quarter |-> "Q1 2025"],
        [Statistic |-> "Interest Rate (Policy)", Value |-> "12.5", Quarter |-> "Q1 2025"]
      >>,
    mining |-> <<
        [Statistic |-> "Copper Production (tonnes)", Value |-> "785432", Quarter |-> "Q4 2024"],
        [Statistic |-> "Mining Employment", Value |-> "91500", Quarter |-> "Q1 2025"],
        [Statistic |-> "Mining GDP Contribution", Value |-> "12.3", Quarter |-> "Q4 2024"]
      >> ]

\* working_collectors.py:111-141  WorldBankCollector._get_indicators_by_type: indicators_map
Working_WB_indicators_map ==
  [ population |-> <<
        [code |-> "SP.POP.TOTL", name |-> "Population, total"],
        [code |-> "SP.POP.GROW", name |-> "Population growth (annual %)"],
        [code |-> "SP.URB.TOTL.IN.ZS", name |-> "Urban population (% of total)"]
      >>,
    health |-> <<
        [code |-> "SP.DYN.LE00.IN", name |-> "Life expectancy at birth, total (years)"],
        [code |-> "SH.DYN.MORT", name |-> "Mortality rate, under-5 (per 1,000 live births)"],
        [code |-> "SH.STA.MMRT", name |-> "Maternal mortality ratio"]
      >>,
    education |-> <<
        [code |-> "SE.ADT.LITR.ZS", name |-> "Literacy rate, adult total (% of people ages 15 and above)"],
        [code |-> "SE.PRM.NENR", name |-> "School enrollment, primary (% net)"],
        [code |-> "SE.SEC.NENR", name |-> "School enrollment, secondary (% net)"]
      >>,
    economy |-> <<
        [code |-> "NY.GDP.MKTP.CD", name |-> "GDP (current US$)"],
        [code |-> "NY.GDP.PCAP.CD", name |-> "GDP per capita (current US$)"],
        [code |-> "NY.GDP.MKTP.KD.ZG", name |-> "GDP growth (annual %)"]
      >>,
    agriculture |-> <<
        [code |-> "AG.LND.AGRI.ZS", name |-> "Agricultural land (% of land area)"],
        [code |-> "AG.PRD.CROP.XD", name |-> "Crop production index"],
        [code |-> "AG.LND.ARBL.ZS", name |-> "Arable land (% of land area)"]
      >>,
    mining |-> <<
        [code |-> "NY.GDP.MINR.RT.ZS", name |-> "Mineral rents (% of GDP)"],
        [code |-> "TX.VAL.MRCH.CD.WT", name |-> "Merchandise exports (current US$)"]
      >> ]

\* working_collectors.py:384-391  UNCollector.collect_data: un_indicators
Working_UN_un_indicators ==
  [ population |-> <<
        "Total Population",
        "Urban Population %",
        "Population Density"
      >>,
    health |-> <<
        "Life Expectancy",
        "Infant Mortality Rate",
        "Maternal Mortality"
      >>,
    education |-> <<
        "Literacy Rate",
        "Primary School Enrollment",
        "Secondary School Enrollment"
      >>,
    economy |-> <<
        "GDP per Capita",
        "Human Development Index",
        "Poverty Rate"
      >>,
    agriculture |-> <<
        "Agricultural Employment %",
        "Food Security Index",
        "Rural Population %"
      >>,
    mining |-> <<
        "Natural Resource Rents",
        "Export Diversification",
        "Mining Employment"
      >> ]

\* data_collectors.py:101-137  WorldBankCollector._get_indicators_by_type: indicators_map
Data_WB_indicators_map ==
  [ population |-> <<
        "SP.POP.TOTL",
        "SP.POP.GROW",
        "SP.URB.TOTL.IN.ZS",
        "SP.RUR.TOTL.ZS"
      >>,
    health |-> <<
        "SP.DYN.LE00.IN",
        "SH.DYN.MORT",
        "SH.STA.MMRT",
        "SH.IMM.MEAS"
      >>,
    education |-> <<
        "SE.ADT.LITR.ZS",
        "SE.PRM.NENR",
        "SE.SEC.NENR",
        "SE.TER.ENRR"
      >>,
    economy |-> <<
        "NY.GDP.MKTP.CD",
        "NY.GDP.PCAP.CD",
        "NY.GDP.MKTP.KD.ZG",
        "FP.CPI.TOTL.ZG"
      >>,
    agriculture |-> <<
        "AG.LND.AGRI.ZS",
        "AG.PRD.CROP.XD",
        "AG.LND.ARBL.ZS",
        "AG.YLD.CREL.KG"
      >>,
    mining |-> <<
        "NY.GDP.MINR.RT.ZS",
        "TX.VAL.MRCH.CD.WT",
        "EG.USE.COMM.CL.ZS"
      >> ]

----------------------------------------------------------------------------
\* The environment: what session.get answers

\* requests raises (timeout, connection error) ...
Timeout == [exc |-> TRUE]
\* ... or returns a response with a status code and a body
Response(status, body) == [exc |-> FALSE, status_code |-> status, body |-> body]

\* one observation of a World Bank API page, as the API shapes it
Observation(code, v, year) == [indicator |-> [id |-> code, value |-> code], country |-> [id |-> "ZM", value |-> "Zambia"], date |-> year, value |-> v]
\* an observation the API sent without its indicator, country and date
MalformedObservation == [value |-> JNum(5)]
ObservationKinds(code) ==
  { Observation(code, JNull, "2024"), Observation(code, JNum(0), "2024"),
    Observation(code, JNum(5), "2023"), Observation(code, JNum(7), "2022"),
    MalformedObservation }

PageMeta == [page |-> 1]
\* bodies of an API answer: not JSON, the one-element error array, [meta, observations]
\* a page of LongPage observations, all with a value: more than the fetch step keeps
LongItems(code) == [i \in 1..LongPage |-> Observation(code, JNum(i), "2023")]
ApiBodies(code, n) ==
  {[json_ok |-> FALSE], [json_ok |-> TRUE, json |-> <<PageMeta>>]}
    \cup {[json_ok |-> TRUE, json |-> <<PageMeta, items>>] : items \in SeqsUpTo(ObservationKinds(code), n)}
    \cup {[json_ok |-> TRUE, json |-> <<PageMeta, LongItems(code)>>]}
ApiResponses(code, n) ==
  {Timeout, Response(500, [json_ok |-> FALSE])} \cup {Response(200, b) : b \in ApiBodies(code, n)}

\* the text of one element of a page: whether it holds a digit, its length,
\* which of the keywords the collectors look for occur in its lowercased
\* text, and whether it matches \d+\.?\d*%|\$\d+
ElementKinds ==
  { [text |-> "Total Population: 20,218,000", digits |-> TRUE, length |-> 28, keywords |-> {"population"}, money |-> FALSE],
    [text |-> "GDP growth 5.2%", digits |-> TRUE, length |-> 15, keywords |-> {"gdp", "growth", "%"}, money |-> TRUE],
    [text |-> "About Zambia", digits |-> FALSE, length |-> 12, keywords |-> {}, money |-> FALSE],
    [text |-> "$12 fee", digits |-> TRUE, length |-> 7, keywords |-> {}, money |-> TRUE],
    [text |-> "(a paragraph of 250 characters on 3 million people)", digits |-> TRUE, length |-> 250, keywords |-> {"million"}, money |-> FALSE] }
\* a scraped page: the elements a find_all returns, in document order
\* a page of LongPage elements that every scraper keeps: more than any of them returns
LongElements ==
  [i \in 1..LongPage |->
     [text |-> "GDP growth 5.2%", digits |-> TRUE, length |-> 15, keywords |-> {"gdp", "growth", "%"}, money |-> TRUE]]
PageResponses(n) ==
  {Timeout, Response(500, [elements |-> <<>>])}
    \cup {Response(200, [elements |-> es]) : es \in SeqsUpTo(ElementKinds, n)}
    \cup {Response(200, [elements |-> LongElements])}

\* the request failed transiently: no answer, a status other than 200, or a
\* body that is not what the endpoint serves (no JSON, no extractable text)
Failed(response) ==
  \/ response.exc
  \/ response.status_code # 200
  \/ HasKey(response.body, "json_ok") /\ ~response.body.json_ok
  \/ HasKey(response.body, "extract_ok") /\ ~response.body.extract_ok

----------------------------------------------------------------------------
\* The dict a collect_data returns

Success(data, metadata) == [success |-> TRUE, data |-> data, metadata |-> metadata]
Failure(error) == [success |-> FALSE, error |-> error]
\* no dict: the exception left collect_data
Raised(e) == [raised |-> e]
\* before the call has returned
Pending == [pending |-> TRUE]

----------------------------------------------------------------------------
\* robust_collectors.WorldBankCollector

\* whether _try_world_bank_api gets as far as its GET (lines 73-80)
Robust_WB_api_requested(dt) == HasKey(Robust_WB_indicators, lower(dt))

\* variant with a fault: the year is stored under 'Date'
RECURSIVE Robust_WB_api_results_dated(_, _)
Robust_WB_api_results_dated(items, results) ==
  IF items = <<>> THEN [raised |-> FALSE, results |-> results]
  ELSE LET item == Head(items)
       IN IF JTruthy(Get(item, "value", JNull))
          THEN IF HasKey(item, "indicator") /\ HasKey(item, "date")
               THEN Robust_WB_api_results_dated(Tail(items),
                      Append(results, [Indicator |-> item.indicator.value, Date |-> item.date,
                                       Value |-> item.value, Country |-> "Zambia",
                                       Source |-> "World Bank API"]))
               ELSE [raised |-> TRUE, results |-> results]
          ELSE Robust_WB_api_results_dated(Tail(items), results)
RECURSIVE Robust_WB_api_results(_, _)
\* the for loop of _try_world_bank_api: the results, or the KeyError of a subscript
Robust_WB_api_results(items, results) ==
  IF items = <<>> THEN [raised |-> FALSE, results |-> results]
  ELSE LET item == Head(items)
       IN IF JTruthy(Get(item, "value", JNull))
          THEN IF HasKey(item, "indicator") /\ HasKey(item, "date")
               THEN Robust_WB_api_results(Tail(items),
                      Append(results, [Indicator |-> item.indicator.value, Year |-> item.date,
                                       Value |-> item.value, Country |-> "Zambia",
                                       Source |-> "World Bank API"]))
               ELSE [raised |-> TRUE, results |-> results]
          ELSE Robust_WB_api_results(Tail(items), results)

\* _try_world_bank_api(data_type), given the answer to its GET
Robust_WB_try_world_bank_api(dt, response) ==
  IF ~Robust_WB_api_requested(dt) THEN None
  ELSE IF response.exc THEN None
  ELSE IF response.status_code = 200
       THEN IF ~response.body.json_ok THEN None
            ELSE LET data == response.body.json
                 IN IF Len(data) > 1 /\ data[2] # <<>>
                    THEN LET r == Robust_WB_api_results(Take(data[2], 5), <<>>)
                         IN IF r.raised THEN None
                            ELSE IF r.results # <<>> THEN Some(r.results) ELSE None
                    ELSE None
       ELSE None

RECURSIVE Robust_WB_scrape_results(_, _, _, _)
\* the for loop of _scrape_world_bank_page, with its break at 5 results
Robust_WB_scrape_results(elements, results, dt, day) ==
  IF elements = <<>> THEN results
  ELSE LET e == Head(elements)
       IN IF e.digits /\ e.length < 200
             /\ e.keywords \cap {"million", "billion", "%", "gdp", "population"} # {}
          THEN LET r == Append(results, [Indicator |-> FStr(<<"Zambia ", title(dt), " Data">>),
                                         Value |-> e.text, Source |-> "World Bank Website",
                                         Country |-> "Zambia", Date |-> strftime(day)])
               IN IF Len(r) >= 5 THEN r
                  ELSE Robust_WB_scrape_results(Tail(elements), r, dt, day)
          ELSE Robust_WB_scrape_results(Tail(elements), results, dt, day)

\* variant with a fault: the list is returned as it is, empty or not
Robust_WB_scrape_world_bank_page_listed(dt, response, day) ==
  IF response.exc THEN None
  ELSE IF response.status_code = 200
       THEN Some(Robust_WB_scrape_results(response.body.elements, <<>>, dt, day))
       ELSE None
\* _scrape_world_bank_page(data_type), given the answer to its GET and the day
Robust_WB_scrape_world_bank_page(dt, response, day) ==
  IF response.exc THEN None
  ELSE IF response.status_code = 200
       THEN LET results == Robust_WB_scrape_results(response.body.elements, <<>>, dt, day)
            IN IF results # <<>> THEN Some(results) ELSE None
       ELSE None

\* variant with a fault: the lookup is case-sensitive
Robust_WB_get_fallback_data_cased(dt) ==
  LET data_list == Get(Robust_WB_base_data, dt, <<>>)
  IN [i \in 1..Len(data_list) |->
        [Indicator |-> data_list[i].Indicator, Value |-> data_list[i].Value,
         Unit |-> Get(data_list[i], "Unit", ""), Country |-> "Zambia",
         Source |-> "World Bank Reference Data", Date |-> "2025 (Current)",
         Note |-> "Current estimates - verify with official World Bank data"]]
\* _get_fallback_data(data_type)
Robust_WB_get_fallback_data(dt) ==
  LET data_list == Get(Robust_WB_base_data, lower(dt), <<>>)
  IN [i \in 1..Len(data_list) |->
        [Indicator |-> data_list[i].Indicator, Value |-> data_list[i].Value,
         Unit |-> Get(data_list[i], "Unit", ""), Country |-> "Zambia",
         Source |-> "World Bank Reference Data", Date |-> "2025 (Current)",
         Note |-> "Current estimates - verify with official World Bank data"]]

\* variant with a fault: the api result is not tested
Robust_WB_after_fetch_untested(api) == "scrape"
\* collect_data: where the call goes after each strategy
Robust_WB_after_fetch(api) == IF Truthy(api) THEN "done" ELSE "scrape"
\* variant with a fault: the scrape result is not tested
Robust_WB_after_scrape_untested(scraped) == "reference"
Robust_WB_after_scrape(scraped) == IF Truthy(scraped) THEN "done" ELSE "reference"

\* variant with a fault: only the first record is returned
Robust_WB_return_api_first(api) == Success(Take(api.list, 1), [source |-> "World Bank API", country |-> "Zambia"])
\* collect_data: the three return statements
Robust_WB_return_api(api) == Success(api.list, [source |-> "World Bank API", country |-> "Zambia"])
\* variant with a fault: the scraped list is returned under the label of the API
Robust_WB_return_scraped_as_api(scraped) == Success(scraped.list, [source |-> "World Bank API", country |-> "Zambia"])
Robust_WB_return_scraped(scraped) == Success(scraped.list, [source |-> "World Bank Website", country |-> "Zambia"])
Robust_WB_return_fallback(fallback) == Success(fallback, [source |-> "World Bank Reference Data", country |-> "Zambia"])

\* First try: World Bank API
Robust_WB_TryFetch ==
  /\ pc = "fetch" /\ module = "robust" /\ source = "world_bank"
  /\ \E response \in ApiResponses(Get(Robust_WB_indicators, lower(data_type), ""), MaxItems) :
       LET api == Robust_WB_try_world_bank_api(data_type, response)
           next == Robust_WB_after_fetch(api)
       IN /\ api_data' = api
          /\ trace' = trace \o <<Ev("call", "fetch")>>
                        \o (IF Robust_WB_api_requested(data_type) THEN <<Ev("get", "api.worldbank.org")>> ELSE <<>>)
          /\ all_failed' = IF Robust_WB_api_requested(data_type) THEN all_failed /\ Failed(response) ELSE all_failed
          /\ pc' = next
          /\ result' = IF next = "done" THEN Robust_WB_return_api(api) ELSE result
  /\ UNCHANGED <<module, source, data_type, scraped_data, idx, all_data, previous, app, http>>

\* Second try: World Bank country page scraping
Robust_WB_TryScrape ==
  /\ pc = "scrape" /\ module = "robust" /\ source = "world_bank"
  /\ \E response \in PageResponses(MaxElements), day \in Days :
       LET scraped == Robust_WB_scrape_world_bank_page(data_type, response, day)
           next == Robust_WB_after_scrape(scraped)
       IN /\ scraped_data' = scraped
          /\ trace' = trace \o <<Ev("call", "scrape"), Ev("get", "www.worldbank.org")>>
          /\ all_failed' = (all_failed /\ Failed(response))
          /\ pc' = next
          /\ result' = IF next = "done" THEN Robust_WB_return_scraped(scraped) ELSE result
  /\ UNCHANGED <<module, source, data_type, api_data, idx, all_data, previous, app, http>>

\* Fallback: the reference table
Robust_WB_UseReference ==
  /\ pc = "reference" /\ module = "robust" /\ source = "world_bank"
  /\ trace' = Append(trace, Ev("call", "reference"))
  /\ result' = Robust_WB_return_fallback(Robust_WB_get_fallback_data(data_type))
  /\ pc' = "done"
  /\ UNCHANGED <<module, source, data_type, api_data, scraped_data, idx, all_data, all_failed, previous, app, http>>

----------------------------------------------------------------------------
\* robust_collectors.IMFCollector

RECURSIVE Robust_IMF_scrape_results(_, _, _, _)
\* the for loop of _scrape_imf_data, with its break at 3 results
Robust_IMF_scrape_results(elements, results, dt, day) ==
  IF elements = <<>> THEN results
  ELSE LET e == Head(elements)
       IN IF e.money /\ e.keywords \cap {"gdp", "inflation", "debt", "growth"} # {}
          THEN LET r == Append(results, [Indicator |-> FStr(<<"IMF ", title(dt), " Metric">>),
                                         Value |-> e.text, Source |-> "IMF Website",
                                         Country |-> "Zambia", Date |-> strftime(day)])
               IN IF Len(r) >= 3 THEN r
                  ELSE Robust_IMF_scrape_results(Tail(elements), r, dt, day)
          ELSE Robust_IMF_scrape_results(Tail(elements), results, dt, day)

\* _scrape_imf_data(data_type)
Robust_IMF_scrape_imf_data(dt, response, day) ==
  IF response.exc THEN None
  ELSE IF response.status_code = 200
       THEN LET results == Robust_IMF_scrape_results(response.body.elements, <<>>, dt, day)
            IN IF results # <<>> THEN Some(results) ELSE None
       ELSE None

\* variant with a fault: the note is left out
Robust_IMF_get_imf_fallback_data_unnoted(dt) ==
  LET data_list == Get(Robust_IMF_imf_data, lower(dt), Robust_IMF_imf_data["economy"])
  IN [i \in 1..Len(data_list) |->
        [Indicator |-> data_list[i].Indicator, Value |-> data_list[i].Value,
         Type |-> data_list[i].Type, Country |-> "Zambia",
         Source |-> "IMF Reference Data", Date |-> "2024 (IMF Estimates)"]]
\* _get_imf_fallback_data(data_type)
Robust_IMF_get_imf_fallback_data(dt) ==
  LET data_list == Get(Robust_IMF_imf_data, lower(dt), Robust_IMF_imf_data["economy"])
  IN [i \in 1..Len(data_list) |->
        [Indicator |-> data_list[i].Indicator, Value |-> data_list[i].Value,
         Type |-> data_list[i].Type, Country |-> "Zambia",
         Source |-> "IMF Reference Data", Date |-> "2024 (IMF Estimates)",
         Note |-> "Based on IMF Article IV consultation and forecasts"]]

Robust_IMF_after_scrape(scraped) == IF Truthy(scraped) THEN "done" ELSE "reference"
Robust_IMF_return_scraped(scraped) == Success(scraped.list, [source |-> "IMF", country |-> "Zambia"])
Robust_IMF_return_fallback(fallback) == Success(fallback, [source |-> "IMF Reference Data", country |-> "Zambia"])

\* Try IMF website
Robust_IMF_TryScrape ==
  /\ pc = "scrape" /\ module = "robust" /\ source = "imf"
  /\ \E response \in PageResponses(MaxElements), day \in Days :
       LET scraped == Robust_IMF_scrape_imf_data(data_type, response, day)
           next == Robust_IMF_after_scrape(scraped)
       IN /\ scraped_data' = scraped
          /\ trace' = trace \o <<Ev("call", "scrape"), Ev("get", "www.imf.org")>>
          /\ all_failed' = (all_failed /\ Failed(response))
          /\ pc' = next
          /\ result' = IF next = "done" THEN Robust_IMF_return_scraped(scraped) ELSE result
  /\ UNCHANGED <<module, source, data_type, api_data, idx, all_data, previous, app, http>>

\* Fallback to reference data
Robust_IMF_UseReference ==
  /\ pc = "reference" /\ module = "robust" /\ source = "imf"
  /\ trace' = Append(trace, Ev("call", "reference"))
  /\ result' = Robust_IMF_return_fallback(Robust_IMF_get_imf_fallback_data(data_type))
  /\ pc' = "done"
  /\ UNCHANGED <<module, source, data_type, api_data, scraped_data, idx, all_data, all_failed, previous, app, http>>

----------------------------------------------------------------------------
\* robust_collectors.USAIDCollector and UNCollector: a table and nothing else

\* _get_usaid_program_data(data_type)
Robust_USAID_get_usaid_program_data(dt) ==
  LET program_list == Get(Robust_USAID_programs, lower(dt), Robust_USAID_programs["health"])
  IN [i \in 1..Len(program_list) |->
        [Program |-> program_list[i].Program, Investment_Value |-> program_list[i].Value,
         Focus_Area |-> program_list[i].Focus, Country |-> "Zambia",
         Source |-> "USAID Programs", Date |-> "2023-2024", Type |-> title(dt)]]

Robust_USAID_collect_data(dt) ==
  Success(Robust_USAID_get_usaid_program_data(dt), [source |-> "USAID Programs", country |-> "Zambia"])

Robust_USAID_Collect ==
  /\ pc = "reference" /\ module = "robust" /\ source = "usaid"
  /\ trace' = Append(trace, Ev("call", "reference"))
  /\ result' = Robust_USAID_collect_data(data_type)
  /\ pc' = "done"
  /\ UNCHANGED <<module, source, data_type, api_data, scraped_data, idx, all_data, all_failed, previous, app, http>>

\* variant with a fault: a topic the table does not have gets no records
Robust_UN_get_un_statistical_data_strict(dt) ==
  LET stats_list == Get(Robust_UN_un_stats, lower(dt), <<>>)
  IN [i \in 1..Len(stats_list) |->
        [Indicator |-> stats_list[i].Indicator, Value |-> stats_list[i].Value,
         Year |-> stats_list[i].Year, Country |-> "Zambia",
         Source |-> "UN Statistics Division", Database |-> "UN Data Portal",
         Type |-> title(dt)]]
\* _get_un_statistical_data(data_type)
Robust_UN_get_un_statistical_data(dt) ==
  LET stats_list == Get(Robust_UN_un_stats, lower(dt), Robust_UN_un_stats["population"])
  IN [i \in 1..Len(stats_list) |->
        [Indicator |-> stats_list[i].Indicator, Value |-> stats_list[i].Value,
         Year |-> stats_list[i].Year, Country |-> "Zambia",
         Source |-> "UN Statistics Division", Database |-> "UN Data Portal",
         Type |-> title(dt)]]

Robust_UN_collect_data(dt) ==
  Success(Robust_UN_get_un_statistical_data(dt), [source |-> "UN Statistics", country |-> "Zambia"])

Robust_UN_Collect ==
  /\ pc = "reference" /\ module = "robust" /\ source = "un"
  /\ trace' = Append(trace, Ev("call", "reference"))
  /\ result' = Robust_UN_collect_data(data_type)
  /\ pc' = "done"
  /\ UNCHANGED <<module, source, data_type, api_data, scraped_data, idx, all_data, all_failed, previous, app, http>>

----------------------------------------------------------------------------
\* The per-indicator loops: what one GET of a loop is answered

\* pages answered inside an indicator loop: no observation, one without a
\* value, a zero, a positive one, a malformed one
LoopPages(code) ==
  { <<>>, <<Observation(code, JNull, "2024")>>, <<Observation(code, JNum(0), "2024")>>,
    <<Observation(code, JNum(5), "2023")>>, <<MalformedObservation>> }
LoopResponses(code) ==
  {Timeout, Response(500, [json_ok |-> FALSE]), Response(200, [json_ok |-> FALSE]),
   Response(200, [json_ok |-> TRUE, json |-> <<PageMeta>>])}
    \cup {Response(200, [json_ok |-> TRUE, json |-> <<PageMeta, items>>]) : items \in LoopPages(code)}

----------------------------------------------------------------------------
\* enhanced_collectors.WorldBankCollector

\* _get_2025_indicators(data_type): the (code, name) pairs in dict order
Enhanced_WB_get_2025_indicators(dt) ==
  Get(Enhanced_WB_indicators, lower(dt), Enhanced_WB_indicators["economy"])

RECURSIVE Enhanced_WB_append_items(_, _, _, _)
\* one of the two `for item in data[1]` loops: [raised, all_data]
Enhanced_WB_append_items(items, acc, name, src) ==
  IF items = <<>> THEN [raised |-> FALSE, all_data |-> acc]
  ELSE LET item == Head(items)
       IN IF JTruthy(Get(item, "value", JNull))
          THEN IF HasKey(item, "date")
               THEN Enhanced_WB_append_items(Tail(items),
                      Append(acc, [Indicator |-> name, Year |-> item.date, Value |-> item.value,
                                   Country |-> "Zambia", Source |-> src]), name, src)
               ELSE [raised |-> TRUE, all_data |-> acc]
          ELSE Enhanced_WB_append_items(Tail(items), acc, name, src)

\* one GET of the loop body and the handling of its answer: [raised, all_data]
Enhanced_WB_one_endpoint(response, acc, name, src) ==
  IF response.exc THEN [raised |-> TRUE, all_data |-> acc]
  ELSE IF response.status_code = 200
       THEN IF ~response.body.json_ok THEN [raised |-> TRUE, all_data |-> acc]
            ELSE LET data == response.body.json
                 IN IF Len(data) > 1 /\ data[2] # <<>>
                    THEN Enhanced_WB_append_items(data[2], acc, name, src)
                    ELSE [raised |-> FALSE, all_data |-> acc]
       ELSE [raised |-> FALSE, all_data |-> acc]

\* the body of the for loop of _fetch_from_multiple_apis for one indicator:
\* the primary endpoint, the alternative endpoint, the sleep; an exception
\* anywhere ends the iteration.  [all_data, events, failed]
Enhanced_WB_iteration(ind, r1, r2, acc) ==
  LET first == Enhanced_WB_one_endpoint(r1, acc, ind.name, "World Bank API")
      second == Enhanced_WB_one_endpoint(r2, first.all_data, FStr(<<ind.name, " (Latest)">>), "World Bank API v2")
  IN IF first.raised
     THEN [all_data |-> first.all_data, events |-> <<Ev("get", ind.code)>>, failed |-> Failed(r1)]
     ELSE IF second.raised
          THEN [all_data |-> second.all_data, events |-> <<Ev("get", ind.code), Ev("get", ind.code)>>,
                failed |-> Failed(r1) /\ Failed(r2)]
          ELSE [all_data |-> second.all_data,
                events |-> <<Ev("get", ind.code), Ev("get", ind.code), Ev("sleep", "0.3")>>,
                failed |-> Failed(r1) /\ Failed(r2)]

\* variant with a fault: the year is read from the clock too
Enhanced_WB_get_current_estimates_clocked(dt, day) ==
  LET data_list == Get(Enhanced_WB_current_data, lower(dt), Enhanced_WB_current_data["economy"])
  IN [i \in 1..Len(data_list) |->
        [Indicator |-> data_list[i].Indicator, Value |-> data_list[i].Value,
         Year |-> [fmt |-> "%Y", day |-> day], Unit |-> Get(data_list[i], "Unit", ""),
         Country |-> "Zambia", Source |-> "World Bank 2025 Estimates",
         Date |-> strftime(day)]]
\* _get_current_estimates(data_type), read on day `day`
Enhanced_WB_get_current_estimates(dt, day) ==
  LET data_list == Get(Enhanced_WB_current_data, lower(dt), Enhanced_WB_current_data["economy"])
  IN [i \in 1..Len(data_list) |->
        [Indicator |-> data_list[i].Indicator, Value |-> data_list[i].Value,
         Year |-> data_list[i].Year, Unit |-> Get(data_list[i], "Unit", ""),
         Country |-> "Zambia", Source |-> "World Bank 2025 Estimates",
         Date |-> strftime(day)]]

\* `return all_data if all_data else None`
Enhanced_WB_fetch_return(acc) == IF acc # <<>> THEN Some(acc) ELSE None
Enhanced_WB_return_api(api) == Success(api.list, [source |-> "World Bank API", country |-> "Zambia", year |-> "2025"])
Enhanced_WB_return_estimates(current) == Success(current, [source |-> "World Bank Current Estimates", country |-> "Zambia", year |-> "2025"])

\* collect_data enters _fetch_from_multiple_apis
Enhanced_WB_Enter ==
  /\ pc = "enter" /\ module = "enhanced" /\ source = "world_bank"
  /\ trace' = Append(trace, Ev("call", "fetch"))
  /\ pc' = "loop" /\ idx' = 1
  /\ UNCHANGED <<module, source, data_type, api_data, scraped_data, all_data, all_failed, result, previous, app, http>>

\* one iteration of the loop over the indicators
Enhanced_WB_FetchIndicator ==
  /\ pc = "loop" /\ module = "enhanced" /\ source = "world_bank"
  /\ idx <= Len(Enhanced_WB_get_2025_indicators(data_type))
  /\ LET ind == Enhanced_WB_get_2025_indicators(data_type)[idx]
     IN \E r1 \in LoopResponses(ind.code), r2 \in LoopResponses(ind.code) :
          LET it == Enhanced_WB_iteration(ind, r1, r2, all_data)
          IN /\ all_data' = it.all_data
             /\ trace' = trace \o it.events
             /\ all_failed' = (all_failed /\ it.failed)
  /\ idx' = idx + 1
  /\ UNCHANGED <<pc, module, source, data_type, api_data, scraped_data, result, previous, app, http>>

\* the loop is over: _fetch_from_multiple_apis returns, collect_data tests it
Enhanced_WB_AfterFetch ==
  /\ pc = "loop" /\ module = "enhanced" /\ source = "world_bank"
  /\ idx > Len(Enhanced_WB_get_2025_indicators(data_type))
  /\ LET api == Enhanced_WB_fetch_return(all_data)
     IN /\ api_data' = api
        /\ IF Truthy(api)
           THEN pc' = "done" /\ result' = Enhanced_WB_return_api(api)
           ELSE pc' = "reference" /\ result' = result
  /\ UNCHANGED <<module, source, data_type, scraped_data, idx, all_data, trace, all_failed, previous, app, http>>

\* Fallback to current estimates
Enhanced_WB_UseEstimates ==
  /\ pc = "reference" /\ module = "enhanced" /\ source = "world_bank"
  /\ trace' = Append(trace, Ev("call", "reference"))
  /\ \E day \in Days : result' = Enhanced_WB_return_estimates(Enhanced_WB_get_current_estimates(data_type, day))
  /\ pc' = "done"
  /\ UNCHANGED <<module, source, data_type, api_data, scraped_data, idx, all_data, all_failed, previous, app, http>>

----------------------------------------------------------------------------
\* enhanced_collectors: the five collectors that only read a table

\* IMFCollector._get_imf_2025_projections(data_type)
Enhanced_IMF_get_imf_2025_projections(dt, day) ==
  LET data_list == Get(Enhanced_IMF_imf_projections, lower(dt), Enhanced_IMF_imf_projections["economy"])
  IN [i \in 1..Len(data_list) |->
        [Indicator |-> data_list[i].Indicator, Value |-> data_list[i].Value,
         Year |-> data_list[i].Year, Type |-> data_list[i].Type, Country |-> "Zambia",
         Source |-> "IMF World Economic Outlook 2025", Date |-> strftime(day)]]

\* USAIDCollector._get_usaid_2025_programs(data_type)
Enhanced_USAID_get_usaid_2025_programs(dt) ==
  LET program_list == Get(Enhanced_USAID_programs, lower(dt), Enhanced_USAID_programs["health"])
  IN [i \in 1..Len(program_list) |->
        [Program_Name |-> program_list[i].Program, Investment_Value |-> program_list[i].Investment,
         Beneficiaries |-> program_list[i].Beneficiaries, Focus_Area |-> program_list[i].Focus,
         Country |-> "Zambia", Source |-> "USAID Country Strategy 2025", Year |-> 2025,
         Type |-> title(dt)]]

\* UNCollector._get_un_sdg_2025_data(data_type)
Enhanced_UN_get_un_sdg_2025_data(dt) ==
  LET data_list == Get(Enhanced_UN_sdg_data, lower(dt), Enhanced_UN_sdg_data["population"])
  IN [i \in 1..Len(data_list) |->
        [SDG_Indicator |-> data_list[i].SDG_Indicator, Current_Value |-> data_list[i].Value,
         Year |-> data_list[i].Year, SDG_Goal |-> data_list[i].SDG, Target_2030 |-> data_list[i].Target,
         Country |-> "Zambia", Source |-> "UN SDG Database 2025", Type |-> title(dt)]]

\* AfricanDevelopmentBankCollector._get_afdb_2025_data(data_type)
Enhanced_AfDB_get_afdb_2025_data(dt) ==
  LET projects == Get(Enhanced_AfDB_afdb_projects, lower(dt), Enhanced_AfDB_afdb_projects["economy"])
  IN [i \in 1..Len(projects) |->
        [Project_Name |-> projects[i].Project, Funding_Amount |-> projects[i].Amount,
         Sector |-> projects[i].Sector, Status |-> projects[i].Status, Country |-> "Zambia",
         Source |-> "African Development Bank", Year |-> 2025]]

\* ZambianStatisticsCollector._get_zambian_stats_2025(data_type)
Enhanced_ZS_get_zambian_stats_2025(dt) ==
  LET stats == Get(Enhanced_ZS_official_stats, lower(dt), Enhanced_ZS_official_stats["economy"])
  IN [i \in 1..Len(stats) |->
        [Official_Statistic |-> stats[i].Statistic, Value |-> stats[i].Value,
         Period |-> stats[i].Quarter, Country |-> "Zambia",
         Source |-> "Zambian Central Statistical Office", Year |-> 2025, Official |-> TRUE]]

\* the collect_data of the five: the table's records and the metadata
Enhanced_static_collect_data(s, dt, day) ==
  CASE s = "imf" -> Success(Enhanced_IMF_get_imf_2025_projections(dt, day), [source |-> "IMF 2025 Projections", country |-> "Zambia"])
    [] s = "usaid" -> Success(Enhanced_USAID_get_usaid_2025_programs(dt), [source |-> "USAID Programs 2025", country |-> "Zambia"])
    [] s = "un" -> Success(Enhanced_UN_get_un_sdg_2025_data(dt), [source |-> "UN SDG Indicators 2025", country |-> "Zambia"])
    [] s = "afdb" -> Success(Enhanced_AfDB_get_afdb_2025_data(dt), [source |-> "African Development Bank 2025", country |-> "Zambia"])
    [] s = "zambian_stats" -> Success(Enhanced_ZS_get_zambian_stats_2025(dt), [source |-> "Zambian Statistics Office 2025", country |-> "Zambia"])

Enhanced_Static_Collect ==
  /\ pc = "enter" /\ module = "enhanced" /\ source # "world_bank"
  /\ trace' = Append(trace, Ev("call", "reference"))
  /\ \E day \in Days : result' = Enhanced_static_collect_data(source, data_type, day)
  /\ pc' = "done"
  /\ UNCHANGED <<module, source, data_type, api_data, scraped_data, idx, all_data, all_failed, previous, app, http>>

----------------------------------------------------------------------------
\* The environment of the text scrapers: what trafilatura.extract and
\* re.findall return on a page, and the tables BeautifulSoup finds

\* matches one pattern can have in a page
MaxMatches == 11
\* tables in a page
MaxTables == 2

MatchCounts == {0, 1, MaxMatches}
\* a page's text as the scrapers see it: for the k-th pattern a collector
\* applies, how many matches re.findall returns
Founds == [1..4 -> MatchCounts]
\* the i-th captured group of the k-th pattern; it may hold thousands separators
Match(k, i) == [pattern |-> k, group |-> i, commas |-> TRUE]
\* re.findall(pattern k, content)
FindAll(content, k) == [i \in 1..content[k] |-> Match(k, i)]
\* str.replace(',', '')
StripCommas(m) == [m EXCEPT !.commas = FALSE]
\* f'${match}'
Dollar(m) == FStr(<<"$", m>>)

\* the first matches of pattern k, at most cap of them: `matches[:cap]`
Matches(content, k, cap) == Take(FindAll(content, k), cap)

\* bodies of a text page: trafilatura.extract gives None, or a text
TextBodies ==
  {[extract_ok |-> FALSE]} \cup {[extract_ok |-> TRUE, found |-> f] : f \in Founds}
TextResponses ==
  {Timeout, Response(500, [extract_ok |-> FALSE])} \cup {Response(200, b) : b \in TextBodies}

\* a table row: its cells, the text of the first two, whether the first
\* names an economic keyword (gdp, inflation, debt, growth, unemployment)
RowGdp == [ncells |-> 2, key |-> "GDP growth", keylen |-> 10, value |-> "5.2%", keyword |-> TRUE]
RowCapital == [ncells |-> 2, key |-> "Capital", keylen |-> 7, value |-> "Lusaka", keyword |-> FALSE]
RowSingle == [ncells |-> 1, key |-> "Zambia", keylen |-> 6, value |-> "", keyword |-> FALSE]
RowBlank == [ncells |-> 2, key |-> "n/a", keylen |-> 3, value |-> "", keyword |-> FALSE]
TableKinds == { <<RowCapital, RowGdp, RowSingle>>, <<RowSingle, RowBlank>>, <<RowGdp>> }
\* bodies of a page with tables and text
TableBodies ==
  {[tables |-> ts, extract_ok |-> FALSE] : ts \in SeqsUpTo(TableKinds, MaxTables)}
    \cup {[tables |-> ts, extract_ok |-> TRUE, found |-> f] : ts \in SeqsUpTo(TableKinds, MaxTables), f \in Founds}
TableResponses ==
  {Timeout, Response(500, [tables |-> <<>>, extract_ok |-> FALSE])} \cup {Response(200, b) : b \in TableBodies}
\* a page of which only the tables are read
\* a table of LongTable rows the portal scraper keeps: more than it returns
LongTableRows == [i \in 1..LongTable |-> RowCapital]
TablesOnlyResponses ==
  {Timeout, Response(500, [tables |-> <<>>])}
    \cup {Response(200, [tables |-> ts]) : ts \in SeqsUpTo(TableKinds, MaxTables)}
    \cup {Response(200, [tables |-> <<LongTableRows>>])}

\* the rows of the tables in document order: `for table in tables: for row in rows`
RECURSIVE Rows(_)
Rows(tables) == IF tables = <<>> THEN <<>> ELSE Head(tables) \o Rows(Tail(tables))

----------------------------------------------------------------------------
\* data_collectors.WorldBankCollector

\* _get_indicators_by_type(data_type)
Data_WB_get_indicators_by_type(dt) == Get(Data_WB_indicators_map, lower(dt), <<>>)

RECURSIVE Data_WB_append_items(_, _)
\* `for item in data[1]`: [raised, all_data]
Data_WB_append_items(items, acc) ==
  IF items = <<>> THEN [raised |-> FALSE, all_data |-> acc]
  ELSE LET item == Head(items)
       IN IF ~HasKey(item, "value") THEN [raised |-> TRUE, all_data |-> acc]
          ELSE IF JNotNone(item.value)
          THEN IF HasKey(item, "indicator") /\ HasKey(item, "date") /\ HasKey(item, "country")
               THEN Data_WB_append_items(Tail(items),
                      Append(acc, [Indicator |-> item.indicator.value, Indicator_Code |-> item.indicator.id,
                                   Year |-> item.date, Value |-> item.value,
                                   Country |-> item.country.value, Source |-> "World Bank"]))
               ELSE [raised |-> TRUE, all_data |-> acc]
          ELSE Data_WB_append_items(Tail(items), acc)

\* variant with a fault: an indicator that fails empties the list collected so far
Data_WB_iteration_discarding(code, response, acc) ==
  LET r == IF response.exc THEN [raised |-> TRUE, all_data |-> acc]
           ELSE IF response.status_code >= 400 THEN [raised |-> TRUE, all_data |-> acc]
           ELSE IF ~response.body.json_ok THEN [raised |-> TRUE, all_data |-> acc]
           ELSE LET data == response.body.json
                IN IF Len(data) > 1 /\ data[2] # <<>>
                   THEN Data_WB_append_items(data[2], acc)
                   ELSE [raised |-> FALSE, all_data |-> acc]
  IN [all_data |-> IF r.raised THEN <<>> ELSE r.all_data,
      events |-> IF r.raised THEN <<Ev("get", code)>> ELSE <<Ev("get", code), Ev("sleep", "0.5")>>]
\* the body of the for loop for one indicator: [all_data, events]
Data_WB_iteration(code, response, acc) ==
  LET r == IF response.exc THEN [raised |-> TRUE, all_data |-> acc]
           ELSE IF response.status_code >= 400 THEN [raised |-> TRUE, all_data |-> acc]
           ELSE IF ~response.body.json_ok THEN [raised |-> TRUE, all_data |-> acc]
           ELSE LET data == response.body.json
                IN IF Len(data) > 1 /\ data[2] # <<>>
                   THEN Data_WB_append_items(data[2], acc)
                   ELSE [raised |-> FALSE, all_data |-> acc]
  IN [all_data |-> r.all_data,
      events |-> IF r.raised THEN <<Ev("get", code)>> ELSE <<Ev("get", code), Ev("sleep", "0.5")>>]

Data_WB_no_indicators(dt) == Failure(FStr(<<"No World Bank indicators found for data type: ", dt>>))
\* variant with a fault: the metadata has no country
Data_WB_after_loop_no_country(dt, acc) ==
  IF acc = <<>> THEN Failure(FStr(<<"No data retrieved from World Bank API">>))
  ELSE Success(acc, [source |-> "World Bank",
                     indicators_count |-> Len(Data_WB_get_indicators_by_type(dt)),
                     records_count |-> Len(acc)])
\* what collect_data returns after the loop
Data_WB_after_loop(dt, acc) ==
  IF acc = <<>> THEN Failure(FStr(<<"No data retrieved from World Bank API">>))
  ELSE Success(acc, [source |-> "World Bank", country |-> "Zambia",
                     indicators_count |-> Len(Data_WB_get_indicators_by_type(dt)),
                     records_count |-> Len(acc)])

Data_WB_Enter ==
  /\ pc = "enter" /\ module = "data" /\ source = "world_bank"
  /\ IF Data_WB_get_indicators_by_type(data_type) = <<>>
     THEN pc' = "done" /\ result' = Data_WB_no_indicators(data_type) /\ idx' = idx
     ELSE pc' = "loop" /\ result' = result /\ idx' = 1
  /\ trace' = Append(trace, Ev("call", "fetch"))
  /\ UNCHANGED <<module, source, data_type, api_data, scraped_data, all_data, all_failed, previous, app, http>>

Data_WB_FetchIndicator ==
  /\ pc = "loop" /\ module = "data" /\ source = "world_bank"
  /\ idx <= Len(Data_WB_get_indicators_by_type(data_type))
  /\ LET code == Data_WB_get_indicators_by_type(data_type)[idx]
     IN \E response \in LoopResponses(code) :
          LET it == Data_WB_iteration(code, response, all_data)
          IN /\ all_data' = it.all_data
             /\ trace' = trace \o it.events
             /\ all_failed' = (all_failed /\ Failed(response))
  /\ idx' = idx + 1
  /\ UNCHANGED <<pc, module, source, data_type, api_data, scraped_data, result, previous, app, http>>

Data_WB_AfterLoop ==
  /\ pc = "loop" /\ module = "data" /\ source = "world_bank"
  /\ idx > Len(Data_WB_get_indicators_by_type(data_type))
  /\ result' = Data_WB_after_loop(data_type, all_data)
  /\ pc' = "done"
  /\ UNCHANGED <<module, source, data_type, api_data, scraped_data, idx, all_data, trace, all_failed, previous, app, http>>

----------------------------------------------------------------------------
\* data_collectors.IMFCollector and USAIDCollector: one page each

\* the description str(e) of what session.get or raise_for_status raised
ExceptionOf(response) == IF response.exc THEN "ConnectTimeout" ELSE "HTTPError"
\* whether `session.get(...); response.raise_for_status()` raises
GetRaises(response) == response.exc \/ response.status_code >= 400

\* _parse_imf_content(content, data_type)
Data_IMF_parse_imf_content(content, dt, day) ==
  IF lower(dt) = "economy"
  THEN [i \in 1..Len(Matches(content, 1, 3)) |->
            [Indicator |-> FStr(<<"GDP Related Metric ", i>>), Value |-> Matches(content, 1, 3)[i],
                          Type |-> "Economic", Source |-> "IMF Website", Date |-> strftime(day)]]
       \o [i \in 1..Len(Matches(content, 2, 3)) |->
            [Indicator |-> FStr(<<"Inflation Related Metric ", i>>), Value |-> Matches(content, 2, 3)[i],
                                Type |-> "Economic", Source |-> "IMF Website", Date |-> strftime(day)]]
  ELSE [i \in 1..Len(Matches(content, 3, 10)) |->
            [Indicator |-> FStr(<<title(dt), " Metric ", i>>), Value |-> Matches(content, 3, 10)[i],
                            Type |-> title(dt), Source |-> "IMF Website", Date |-> strftime(day)]]

\* variant with a fault: the except clause re-raises
Data_IMF_except_reraise(e) == Raised(e)
\* the except clause of IMFCollector.collect_data
Data_IMF_except(e) == Failure(FStr(<<"IMF website scraping failed: ", e>>))

\* IMFCollector.collect_data(data_type)
Data_IMF_collect_data(dt, response, day) ==
  IF GetRaises(response) THEN Data_IMF_except(ExceptionOf(response))
  ELSE IF ~response.body.extract_ok THEN Failure(FStr(<<"Failed to extract content from IMF website">>))
  ELSE LET data == Data_IMF_parse_imf_content(response.body.found, dt, day)
       IN IF data = <<>> THEN Failure(FStr(<<"No relevant ", dt, " data found on IMF website">>))
          ELSE Success(data, [source |-> "IMF", url |-> "https://www.imf.org/en/Countries/ZMB", data_type |-> dt])

\* variant with a fault: the funding matches are cut at six
Data_USAID_parse_usaid_content_six(content, dt, day) ==
  [i \in 1..Len(Matches(content, 1, 6)) |->
            [Indicator |-> FStr(<<"USAID Funding Amount ", i>>), Value |-> Matches(content, 1, 6)[i], Unit |-> "USD",
                        Type |-> "Development Aid", Source |-> "USAID Website", Date |-> strftime(day)]]
  \o [i \in 1..Len(Matches(content, 2, 5)) |->
            [Indicator |-> FStr(<<"Program/Beneficiary Count ", i>>), Value |-> Matches(content, 2, 5)[i],
                       Type |-> "Program Data", Source |-> "USAID Website", Date |-> strftime(day)]]
  \o (IF lower(dt) \in {"health", "education", "agriculture"}
      THEN [i \in 1..Len(Matches(content, 3, 3)) |->
            [Indicator |-> FStr(<<title(dt), " Related Metric ", i>>), Value |-> StripCommas(Matches(content, 3, 3)[i]),
                                Type |-> title(dt), Source |-> "USAID Website", Date |-> strftime(day)]]
      ELSE <<>>)
\* _parse_usaid_content(content, data_type)
Data_USAID_parse_usaid_content(content, dt, day) ==
  [i \in 1..Len(Matches(content, 1, 5)) |->
            [Indicator |-> FStr(<<"USAID Funding Amount ", i>>), Value |-> Matches(content, 1, 5)[i], Unit |-> "USD",
                        Type |-> "Development Aid", Source |-> "USAID Website", Date |-> strftime(day)]]
  \o [i \in 1..Len(Matches(content, 2, 5)) |->
            [Indicator |-> FStr(<<"Program/Beneficiary Count ", i>>), Value |-> Matches(content, 2, 5)[i],
                       Type |-> "Program Data", Source |-> "USAID Website", Date |-> strftime(day)]]
  \o (IF lower(dt) \in {"health", "education", "agriculture"}
      THEN [i \in 1..Len(Matches(content, 3, 3)) |->
            [Indicator |-> FStr(<<title(dt), " Related Metric ", i>>), Value |-> StripCommas(Matches(content, 3, 3)[i]),
                                Type |-> title(dt), Source |-> "USAID Website", Date |-> strftime(day)]]
      ELSE <<>>)

\* the except clause of USAIDCollector.collect_data
Data_USAID_except(e) == Failure(FStr(<<"USAID website scraping failed: ", e>>))

\* USAIDCollector.collect_data(data_type)
Data_USAID_collect_data(dt, response, day) ==
  IF GetRaises(response) THEN Data_USAID_except(ExceptionOf(response))
  ELSE IF ~response.body.extract_ok THEN Failure(FStr(<<"Failed to extract content from USAID website">>))
  ELSE LET data == Data_USAID_parse_usaid_content(response.body.found, dt, day)
       IN IF data = <<>> THEN Failure(FStr(<<"No relevant ", dt, " data found on USAID website">>))
          ELSE Success(data, [source |-> "USAID", url |-> "https://www.usaid.gov/zambia", data_type |-> dt])

Data_IMF_Collect ==
  /\ pc = "enter" /\ module = "data" /\ source = "imf"
  /\ \E response \in TextResponses, day \in Days :
       /\ result' = Data_IMF_collect_data(data_type, response, day)
       /\ all_failed' = (all_failed /\ Failed(response))
  /\ trace' = trace \o <<Ev("call", "scrape"), Ev("get", "www.imf.org")>>
  /\ pc' = "done"
  /\ UNCHANGED <<module, source, data_type, api_data, scraped_data, idx, all_data, previous, app, http>>

Data_USAID_Collect ==
  /\ pc = "enter" /\ module = "data" /\ source = "usaid"
  /\ \E response \in TextResponses, day \in Days :
       /\ result' = Data_USAID_collect_data(data_type, response, day)
       /\ all_failed' = (all_failed /\ Failed(response))
  /\ trace' = trace \o <<Ev("call", "scrape"), Ev("get", "www.usaid.gov")>>
  /\ pc' = "done"
  /\ UNCHANGED <<module, source, data_type, api_data, scraped_data, idx, all_data, previous, app, http>>

----------------------------------------------------------------------------
\* data_collectors.UNCollector: two pages, both always read

Data_UN_urls == <<"https://data.un.org/en/iso/zm.html", "https://www.unicef.org/zambia/">>
\* 'unicef' in source_url.lower()
IsUnicef(url) == url = "https://www.unicef.org/zambia/"

\* _parse_un_content(content, data_type, source_url)
Data_UN_parse_un_content(content, dt, url, day) ==
  IF IsUnicef(url)
  THEN [i \in 1..Len(Matches(content, 1, 3)) |->
            [Indicator |-> FStr(<<"Children Related Metric ", i>>), Value |-> StripCommas(Matches(content, 1, 3)[i]),
                            Type |-> "Child Welfare", Source |-> "UNICEF", Date |-> strftime(day)]]
       \o [i \in 1..Len(Matches(content, 2, 3)) |->
            [Indicator |-> FStr(<<"Mortality Rate ", i>>), Value |-> Matches(content, 2, 3)[i],
                           Type |-> "Health", Source |-> "UNICEF", Date |-> strftime(day)]]
  ELSE [i \in 1..Len(Matches(content, 1, 5)) |->
            [Indicator |-> FStr(<<"Percentage Indicator ", i>>), Value |-> Matches(content, 1, 5)[i],
                                 Unit |-> "Percent", Type |-> title(dt), Source |-> "UN Data", Date |-> strftime(day)]]
       \o [i \in 1..Len(Matches(content, 2, 5)) |->
            [Indicator |-> FStr(<<"Count Indicator ", i>>), Value |-> StripCommas(Matches(content, 2, 5)[i]),
                             Type |-> title(dt), Source |-> "UN Data", Date |-> strftime(day)]]

\* the body of the for loop for one url: [all_data, events]
Data_UN_iteration(url, response, acc, dt, day) ==
  IF GetRaises(response) THEN [all_data |-> acc, events |-> <<Ev("get", url)>>]
  ELSE [all_data |-> IF response.body.extract_ok
                     THEN acc \o Data_UN_parse_un_content(response.body.found, dt, url, day)
                     ELSE acc,
        events |-> <<Ev("get", url), Ev("sleep", "1")>>]

\* variant with a fault: the list is returned without the test for emptiness
Data_UN_after_loop_untested(dt, acc) ==
  Success(acc, [source |-> "UN Agencies", urls_scraped |-> Len(Data_UN_urls), data_type |-> dt])
\* what collect_data returns after the loop
Data_UN_after_loop(dt, acc) ==
  IF acc = <<>> THEN Failure(FStr(<<"No data found from UN websites">>))
  ELSE Success(acc, [source |-> "UN Agencies", urls_scraped |-> Len(Data_UN_urls), data_type |-> dt])

Data_UN_Enter ==
  /\ pc = "enter" /\ module = "data" /\ source = "un"
  /\ pc' = "loop" /\ idx' = 1
  /\ trace' = Append(trace, Ev("call", "scrape"))
  /\ UNCHANGED <<module, source, data_type, api_data, scraped_data, all_data, all_failed, result, previous, app, http>>

Data_UN_ScrapeUrl ==
  /\ pc = "loop" /\ module = "data" /\ source = "un"
  /\ idx <= Len(Data_UN_urls)
  /\ \E response \in TextResponses, day \in Days :
       LET it == Data_UN_iteration(Data_UN_urls[idx], response, all_data, data_type, day)
       IN /\ all_data' = it.all_data
          /\ trace' = trace \o it.events
          /\ all_failed' = (all_failed /\ Failed(response))
  /\ idx' = idx + 1
  /\ UNCHANGED <<pc, module, source, data_type, api_data, scraped_data, result, previous, app, http>>

Data_UN_AfterLoop ==
  /\ pc = "loop" /\ module = "data" /\ source = "un"
  /\ idx > Len(Data_UN_urls)
  /\ result' = Data_UN_after_loop(data_type, all_data)
  /\ pc' = "done"
  /\ UNCHANGED <<module, source, data_type, api_data, scraped_data, idx, all_data, trace, all_failed, previous, app, http>>

----------------------------------------------------------------------------
\* working_collectors.WorldBankCollector

\* variant with a fault: the topic is looked up as it was typed
Working_WB_get_indicators_by_type_cased(dt) == Get(Working_WB_indicators_map, dt, <<>>)
\* _get_indicators_by_type(data_type): the (code, name) pairs in dict order
Working_WB_get_indicators_by_type(dt) == Get(Working_WB_indicators_map, lower(dt), <<>>)

RECURSIVE Working_WB_append_items(_, _, _)
\* `for item in data[1]`
Working_WB_append_items(items, acc, ind) ==
  IF items = <<>> THEN acc
  ELSE LET item == Head(items)
       IN IF JNotNone(Get(item, "value", JNull))
          THEN Working_WB_append_items(Tail(items),
                 Append(acc, [Indicator |-> ind.name, Indicator_Code |-> ind.code,
                              Year |-> Get(item, "date", "N/A"), Value |-> Get(item, "value", "N/A"),
                              Country |-> "Zambia", Source |-> "World Bank"]), ind)
          ELSE Working_WB_append_items(Tail(items), acc, ind)

\* variant with a fault: a GET that raised is sent once more
Working_WB_iteration_retrying(ind, response, acc) ==
  IF response.exc THEN [all_data |-> acc, events |-> <<Ev("get", ind.code), Ev("get", ind.code)>>]
  ELSE IF response.status_code = 200
  THEN IF ~response.body.json_ok THEN [all_data |-> acc, events |-> <<Ev("get", ind.code)>>]
       ELSE LET data == response.body.json
            IN [all_data |-> IF Len(data) > 1 /\ data[2] # <<>>
                             THEN Working_WB_append_items(data[2], acc, ind) ELSE acc,
                events |-> <<Ev("get", ind.code), Ev("sleep", "0.5")>>]
  ELSE [all_data |-> acc, events |-> <<Ev("get", ind.code), Ev("sleep", "0.5")>>]
\* the body of the for loop for one indicator: [all_data, events]
Working_WB_iteration(ind, response, acc) ==
  IF response.exc THEN [all_data |-> acc, events |-> <<Ev("get", ind.code)>>]
  ELSE IF response.status_code = 200
  THEN IF ~response.body.json_ok THEN [all_data |-> acc, events |-> <<Ev("get", ind.code)>>]
       ELSE LET data == response.body.json
            IN [all_data |-> IF Len(data) > 1 /\ data[2] # <<>>
                             THEN Working_WB_append_items(data[2], acc, ind) ELSE acc,
                events |-> <<Ev("get", ind.code), Ev("sleep", "0.5")>>]
  ELSE [all_data |-> acc, events |-> <<Ev("get", ind.code), Ev("sleep", "0.5")>>]

Working_WB_no_indicators(dt) == Failure(FStr(<<"No World Bank indicators found for data type: ", dt>>))
\* the record that stands in when the API gave nothing
Working_WB_placeholder(dt, day) ==
  << [Indicator |-> FStr(<<title(dt), " Data">>),
      Value |-> "API connection issue - please check World Bank API availability",
      Year |-> [fmt |-> "year", day |-> day], Country |-> "Zambia",
      Source |-> "World Bank (Connection Error)"] >>
\* variant with a fault: no placeholder, the empty loop is reported as a failure
Working_WB_after_loop_failing(dt, acc, day) ==
  IF acc = <<>> THEN Failure(FStr(<<"No data retrieved from World Bank API">>))
  ELSE Success(acc, [source |-> "World Bank", country |-> "Zambia", records_count |-> Len(acc)])
\* what collect_data returns after the loop
Working_WB_after_loop(dt, acc, day) ==
  LET data == IF acc = <<>> THEN Working_WB_placeholder(dt, day) ELSE acc
  IN Success(data, [source |-> "World Bank", country |-> "Zambia", records_count |-> Len(data)])

Working_WB_Enter ==
  /\ pc = "enter" /\ module = "working" /\ source = "world_bank"
  /\ IF Working_WB_get_indicators_by_type(data_type) = <<>>
     THEN pc' = "done" /\ result' = Working_WB_no_indicators(data_type) /\ idx' = idx
     ELSE pc' = "loop" /\ result' = result /\ idx' = 1
  /\ trace' = Append(trace, Ev("call", "fetch"))
  /\ UNCHANGED <<module, source, data_type, api_data, scraped_data, all_data, all_failed, previous, app, http>>

Working_WB_FetchIndicator ==
  /\ pc = "loop" /\ module = "working" /\ source = "world_bank"
  /\ idx <= Len(Working_WB_get_indicators_by_type(data_type))
  /\ LET ind == Working_WB_get_indicators_by_type(data_type)[idx]
     IN \E response \in LoopResponses(ind.code) :
          LET it == Working_WB_iteration(ind, response, all_data)
          IN /\ all_data' = it.all_data
             /\ trace' = trace \o it.events
             /\ all_failed' = (all_failed /\ Failed(response))
  /\ idx' = idx + 1
  /\ UNCHANGED <<pc, module, source, data_type, api_data, scraped_data, result, previous, app, http>>

Working_WB_AfterLoop ==
  /\ pc = "loop" /\ module = "working" /\ source = "world_bank"
  /\ idx > Len(Working_WB_get_indicators_by_type(data_type))
  /\ \E day \in Days :
       /\ result' = Working_WB_after_loop(data_type, all_data, day)
       /\ trace' = IF all_data = <<>> THEN Append(trace, Ev("call", "reference")) ELSE trace
  /\ pc' = "done"
  /\ UNCHANGED <<module, source, data_type, api_data, scraped_data, idx, all_data, all_failed, previous, app, http>>

----------------------------------------------------------------------------
\* working_collectors.IMFCollector

Working_IMF_urls == <<"https://www.imf.org/en/Countries/ZMB", "https://www.imf.org/external/datamapper/profile/ZMB">>
Working_IMF_indicator_types == <<"GDP", "Inflation", "Growth", "Debt">>

RECURSIVE Working_IMF_table_records(_, _, _)
\* the rows of the first three tables whose first cell names a keyword
Working_IMF_table_records(rows, dt, day) ==
  IF rows = <<>> THEN <<>>
  ELSE LET row == Head(rows)
       IN (IF row.ncells >= 2 /\ row.keyword
           THEN << [Indicator |-> row.key, Value |-> row.value, Type |-> title(dt),
                    Source |-> "IMF Website", Country |-> "Zambia", Date |-> strftime(day)] >>
           ELSE <<>>)
          \o Working_IMF_table_records(Tail(rows), dt, day)

\* the records of pattern i: `for j, match in enumerate(matches[:2])`
Working_IMF_pattern_records(content, i, dt, day) ==
  [j \in 1..Len(Matches(content, i, 2)) |->
            [Indicator |-> FStr(<<Working_IMF_indicator_types[i], " Related Metric ", j>>),
                       Value |-> Matches(content, i, 2)[j], Type |-> title(dt), Source |-> "IMF Website",
                       Country |-> "Zambia", Date |-> strftime(day)]]

\* variant with a fault: the text pass runs before the table pass
Working_IMF_page_records_text_first(body, dt, day) ==
  (IF body.extract_ok
   THEN Working_IMF_pattern_records(body.found, 1, dt, day) \o Working_IMF_pattern_records(body.found, 2, dt, day)
        \o Working_IMF_pattern_records(body.found, 3, dt, day) \o Working_IMF_pattern_records(body.found, 4, dt, day)
   ELSE <<>>)
  \o Working_IMF_table_records(Rows(Take(body.tables, 3)), dt, day)
\* what one page adds to all_data (status 200)
Working_IMF_page_records(body, dt, day) ==
  Working_IMF_table_records(Rows(Take(body.tables, 3)), dt, day)
  \o (IF body.extract_ok
      THEN Working_IMF_pattern_records(body.found, 1, dt, day) \o Working_IMF_pattern_records(body.found, 2, dt, day)
           \o Working_IMF_pattern_records(body.found, 3, dt, day) \o Working_IMF_pattern_records(body.found, 4, dt, day)
      ELSE <<>>)

\* the body of the for loop for one url: [all_data, break]
Working_IMF_iteration(response, acc, dt, day) ==
  IF response.exc \/ response.status_code # 200 THEN [all_data |-> acc, break |-> FALSE]
  ELSE LET data == acc \o Working_IMF_page_records(response.body, dt, day)
       IN [all_data |-> data, break |-> data # <<>>]

Working_IMF_placeholder(dt, day) ==
  << [Indicator |-> FStr(<<"IMF ", title(dt), " Data Status">>),
      Value |-> "IMF website access restricted or data format changed",
      Type |-> title(dt), Source |-> "IMF Website", Country |-> "Zambia", Date |-> strftime(day),
      Note |-> "Consider accessing IMF data directly from their official statistics portal"] >>
\* what collect_data returns after the loop
Working_IMF_after_loop(dt, acc, day) ==
  LET data == IF acc = <<>> THEN Working_IMF_placeholder(dt, day) ELSE acc
  IN Success(data, [source |-> "IMF", data_type |-> dt, records_found |-> Len(data)])

----------------------------------------------------------------------------
\* working_collectors.USAIDCollector

Working_USAID_urls == <<"https://www.usaid.gov/zambia", "https://www.usaid.gov/zambia/fact-sheets">>

\* the records of funding pattern i: `for match in matches[:3]`
Working_USAID_pattern_records(content, i, day) ==
  [j \in 1..Len(Matches(content, i, 3)) |->
            IF i = 1
      THEN [Indicator |-> "USAID Funding Amount", Value |-> Dollar(Matches(content, i, 3)[j]), Unit |-> "USD",
            Type |-> "Development Aid", Source |-> "USAID Website", Country |-> "Zambia", Date |-> strftime(day)]
      ELSE [Indicator |-> "USAID Program Reach", Value |-> Matches(content, i, 3)[j],
            Type |-> "Program Data", Source |-> "USAID Website", Country |-> "Zambia", Date |-> strftime(day)]]

\* what one page adds to all_data (status 200)
Working_USAID_page_records(body, day) ==
  IF body.extract_ok
  THEN Working_USAID_pattern_records(body.found, 1, day) \o Working_USAID_pattern_records(body.found, 2, day)
       \o Working_USAID_pattern_records(body.found, 3, day)
  ELSE <<>>

\* variant with a fault: the loop goes on to the next url whatever it found
Working_USAID_iteration_unbroken(response, acc, day) ==
  IF response.exc \/ response.status_code # 200 THEN [all_data |-> acc, break |-> FALSE]
  ELSE [all_data |-> acc \o Working_USAID_page_records(response.body, day), break |-> FALSE]
\* the body of the for loop for one url: [all_data, break]
Working_USAID_iteration(response, acc, day) ==
  IF response.exc \/ response.status_code # 200 THEN [all_data |-> acc, break |-> FALSE]
  ELSE LET data == acc \o Working_USAID_page_records(response.body, day)
       IN [all_data |-> data, break |-> data # <<>>]

Working_USAID_placeholder(dt, day) ==
  << [Indicator |-> FStr(<<"USAID ", title(dt), " Programs">>),
      Value |-> "USAID website access limited or data structure changed",
      Type |-> title(dt), Source |-> "USAID Website", Country |-> "Zambia", Date |-> strftime(day),
      Note |-> "Visit USAID.gov/zambia for current program information"] >>
\* what collect_data returns after the loop
Working_USAID_after_loop(dt, acc, day) ==
  LET data == IF acc = <<>> THEN Working_USAID_placeholder(dt, day) ELSE acc
  IN Success(data, [source |-> "USAID", data_type |-> dt])

----------------------------------------------------------------------------
\* the url loops of working IMFCollector and USAIDCollector

Working_urls(s) == IF s = "imf" THEN Working_IMF_urls ELSE Working_USAID_urls

Working_Scrape_Enter ==
  /\ pc = "enter" /\ module = "working" /\ source \in {"imf", "usaid"}
  /\ pc' = "loop" /\ idx' = 1
  /\ trace' = Append(trace, Ev("call", "scrape"))
  /\ UNCHANGED <<module, source, data_type, api_data, scraped_data, all_data, all_failed, result, previous, app, http>>

Working_IMF_ScrapeUrl ==
  /\ pc = "loop" /\ module = "working" /\ source = "imf"
  /\ idx <= Len(Working_IMF_urls)
  /\ \E response \in TableResponses, day \in Days :
       LET it == Working_IMF_iteration(response, all_data, data_type, day)
       IN /\ all_data' = it.all_data
          /\ idx' = IF it.break THEN Len(Working_IMF_urls) + 1 ELSE idx + 1
          /\ all_failed' = (all_failed /\ Failed(response))
  /\ trace' = Append(trace, Ev("get", Working_IMF_urls[idx]))
  /\ UNCHANGED <<pc, module, source, data_type, api_data, scraped_data, result, previous, app, http>>

Working_USAID_ScrapeUrl ==
  /\ pc = "loop" /\ module = "working" /\ source = "usaid"
  /\ idx <= Len(Working_USAID_urls)
  /\ \E response \in TextResponses, day \in Days :
       LET it == Working_USAID_iteration(response, all_data, day)
       IN /\ all_data' = it.all_data
          /\ idx' = IF it.break THEN Len(Working_USAID_urls) + 1 ELSE idx + 1
          /\ all_failed' = (all_failed /\ Failed(response))
  /\ trace' = Append(trace, Ev("get", Working_USAID_urls[idx]))
  /\ UNCHANGED <<pc, module, source, data_type, api_data, scraped_data, result, previous, app, http>>

Working_Scrape_AfterLoop ==
  /\ pc = "loop" /\ module = "working" /\ source \in {"imf", "usaid"}
  /\ idx > Len(Working_urls(source))
  /\ \E day \in Days :
       result' = IF source = "imf" THEN Working_IMF_after_loop(data_type, all_data, day)
                 ELSE Working_USAID_after_loop(data_type, all_data, day)
  /\ trace' = IF all_data = <<>> THEN Append(trace, Ev("call", "reference")) ELSE trace
  /\ pc' = "done"
  /\ UNCHANGED <<module, source, data_type, api_data, scraped_data, idx, all_data, all_failed, previous, app, http>>

----------------------------------------------------------------------------
\* working_collectors.UNCollector

Working_UN_url == "https://data.un.org/_layouts/15/UNStats/Country.aspx?cid=894"

RECURSIVE Working_UN_table_records(_, _, _)
\* the rows with a first cell longer than three characters and a second cell
Working_UN_table_records(rows, dt, day) ==
  IF rows = <<>> THEN <<>>
  ELSE LET row == Head(rows)
       IN (IF row.ncells >= 2 /\ row.key # "" /\ row.value # "" /\ row.keylen > 3
           THEN << [Indicator |-> row.key, Value |-> row.value, Type |-> title(dt),
                    Source |-> "UN Data Portal", Country |-> "Zambia", Date |-> strftime(day)] >>
           ELSE <<>>)
          \o Working_UN_table_records(Tail(rows), dt, day)

\* variant with a fault: every row of the portal is returned
Working_UN_portal_uncapped(response, dt, day) ==
  IF response.exc \/ response.status_code # 200 THEN <<>>
  ELSE Working_UN_table_records(Rows(response.body.tables), dt, day)
\* the portal attempt: all_data after the inner try
Working_UN_portal(response, dt, day) ==
  IF response.exc \/ response.status_code # 200 THEN <<>>
  ELSE Take(Working_UN_table_records(Rows(response.body.tables), dt, day), 10)

\* the records that stand in when the portal gave nothing
Working_UN_placeholders(dt, day) ==
  LET indicators == Get(Working_UN_un_indicators, lower(dt), <<"General Statistics">>)
  IN [i \in 1..Len(indicators) |->
        [Indicator |-> indicators[i],
         Value |-> "UN data portal access restricted - visit data.un.org for latest statistics",
         Type |-> title(dt), Source |-> "UN Data Portal", Country |-> "Zambia", Date |-> strftime(day),
         Note |-> "Direct access to UN statistical databases recommended"]]

\* variant with a fault: the portal's list is returned even when it is empty
Working_UN_collect_data_bare(dt, response, day) ==
  Success(Working_UN_portal(response, dt, day), [source |-> "UN Agencies", data_type |-> dt])
\* UNCollector.collect_data(data_type)
Working_UN_collect_data(dt, response, day) ==
  LET portal == Working_UN_portal(response, dt, day)
  IN Success(IF portal = <<>> THEN Working_UN_placeholders(dt, day) ELSE portal,
             [source |-> "UN Agencies", data_type |-> dt])

Working_UN_Collect ==
  /\ pc = "enter" /\ module = "working" /\ source = "un"
  /\ \E response \in TablesOnlyResponses, day \in Days :
       /\ result' = Working_UN_collect_data(data_type, response, day)
       /\ all_failed' = (all_failed /\ Failed(response))
       /\ trace' = trace \o <<Ev("call", "scrape"), Ev("get", Working_UN_url)>>
                     \o (IF Working_UN_portal(response, data_type, day) = <<>> THEN <<Ev("call", "reference")>> ELSE <<>>)
  /\ pc' = "done"
  /\ UNCHANGED <<module, source, data_type, api_data, scraped_data, idx, all_data, previous, app, http>>

----------------------------------------------------------------------------
\* The calls

Modules == {"robust", "enhanced", "working", "data"}
SourcesOf(m) ==
  IF m = "enhanced" THEN {"world_bank", "imf", "usaid", "un", "afdb", "zambian_stats"}
  ELSE {"world_bank", "imf", "usaid", "un"}

\* the first step of each collect_data
Entry(m, s) ==
  CASE m = "robust" /\ s = "world_bank" -> "fetch"
    [] m = "robust" /\ s = "imf" -> "scrape"
    [] m = "robust" -> "reference"
    [] OTHER -> "enter"

\* no call before / no answer yet
NoCall == [called |-> FALSE]
NoResponse == [answered |-> FALSE]

Init ==
  /\ pc = "idle" /\ module = "none" /\ source = "none" /\ data_type = "none"
  /\ api_data = None /\ scraped_data = None
  /\ idx = 0 /\ all_data = <<>> /\ trace = <<>> /\ all_failed = TRUE /\ result = Pending
  /\ previous = NoCall /\ app = "none" /\ http = NoResponse

\* a caller invokes collect_data(data_type) on one collector of the modules Ms
Call(Ms) ==
  /\ pc = "idle"
  /\ \E m \in Ms : \E s \in SourcesOf(m), dt \in Topics :
       /\ module' = m /\ source' = s /\ data_type' = dt
       /\ pc' = Entry(m, s)
  /\ api_data' = None /\ scraped_data' = None
  /\ idx' = 0 /\ all_data' = <<>> /\ trace' = <<>> /\ all_failed' = TRUE /\ result' = Pending
  /\ previous' = NoCall /\ app' = "none" /\ http' = NoResponse

\* the caller has the dict; the collector is ready for the next call
Return ==
  /\ pc = "done" /\ app = "none"
  /\ pc' = "idle" /\ module' = "none" /\ source' = "none" /\ data_type' = "none"
  /\ api_data' = None /\ scraped_data' = None
  /\ idx' = 0 /\ all_data' = <<>> /\ trace' = <<>> /\ all_failed' = TRUE /\ result' = Pending
  /\ previous' = NoCall /\ app' = "none" /\ http' = NoResponse

RobustSteps ==
  \/ Robust_WB_TryFetch
  \/ Robust_WB_TryScrape
  \/ Robust_WB_UseReference
  \/ Robust_IMF_TryScrape
  \/ Robust_IMF_UseReference
  \/ Robust_USAID_Collect
  \/ Robust_UN_Collect

EnhancedSteps ==
  \/ Enhanced_WB_Enter
  \/ Enhanced_WB_FetchIndicator
  \/ Enhanced_WB_AfterFetch
  \/ Enhanced_WB_UseEstimates
  \/ Enhanced_Static_Collect

NextEnhanced == Call({"enhanced"}) \/ EnhancedSteps \/ Return
SpecEnhanced == Init /\ [][NextEnhanced]_vars

DataSteps ==
  \/ Data_WB_Enter
  \/ Data_WB_FetchIndicator
  \/ Data_WB_AfterLoop
  \/ Data_IMF_Collect
  \/ Data_USAID_Collect
  \/ Data_UN_Enter
  \/ Data_UN_ScrapeUrl
  \/ Data_UN_AfterLoop

NextData == Call({"data"}) \/ DataSteps \/ Return
SpecData == Init /\ [][NextData]_vars

WorkingSteps ==
  \/ Working_WB_Enter
  \/ Working_WB_FetchIndicator
  \/ Working_WB_AfterLoop
  \/ Working_Scrape_Enter
  \/ Working_IMF_ScrapeUrl
  \/ Working_USAID_ScrapeUrl
  \/ Working_Scrape_AfterLoop
  \/ Working_UN_Collect

NextWorking == Call({"working"}) \/ WorkingSteps \/ Return
SpecWorking == Init /\ [][NextWorking]_vars

NextRobust == Call({"robust"}) \/ RobustSteps \/ Return
SpecRobust == Init /\ [][NextRobust]_vars

Next == Call(Modules) \/ RobustSteps \/ EnhancedSteps \/ WorkingSteps \/ DataSteps \/ Return
Spec == Init /\ [][Next]_vars

----------------------------------------------------------------------------
\* Two consecutive calls of one World Bank collector for one topic

\* the call served its static table: every live strategy gave no result
ReferenceServed == \E i \in DOMAIN trace : trace[i] = Ev("call", "reference")

\* the first call picks the collector and the topic, the second repeats them
CallTwice ==
  /\ pc = "idle"
  /\ IF previous = NoCall
     THEN \E m \in {"robust", "enhanced"}, dt \in Topics :
            /\ module' = m /\ source' = "world_bank" /\ data_type' = dt
            /\ pc' = Entry(m, "world_bank")
     ELSE /\ module' = previous.module /\ source' = previous.source /\ data_type' = previous.data_type
          /\ pc' = Entry(previous.module, previous.source)
  /\ api_data' = None /\ scraped_data' = None
  /\ idx' = 0 /\ all_data' = <<>> /\ trace' = <<>> /\ all_failed' = TRUE /\ result' = Pending
  /\ app' = "none" /\ http' = NoResponse
  /\ UNCHANGED previous

\* the caller has the dict; the records of a first call that served the
\* static table are kept for the comparison with the second
ReturnRecorded ==
  /\ pc = "done" /\ app = "none"
  /\ previous' = IF previous = NoCall /\ ReferenceServed /\ result.success = TRUE
                 THEN [called |-> TRUE, module |-> module, source |-> source,
                       data_type |-> data_type, data |-> result.data]
                 ELSE NoCall
  /\ pc' = "idle" /\ module' = "none" /\ source' = "none" /\ data_type' = "none"
  /\ api_data' = None /\ scraped_data' = None
  /\ idx' = 0 /\ all_data' = <<>> /\ trace' = <<>> /\ all_failed' = TRUE /\ result' = Pending
  /\ app' = "none" /\ http' = NoResponse

NextTwice ==
  \/ CallTwice
  \/ Robust_WB_TryFetch
  \/ Robust_WB_TryScrape
  \/ Robust_WB_UseReference
  \/ Enhanced_WB_Enter
  \/ Enhanced_WB_FetchIndicator
  \/ Enhanced_WB_AfterFetch
  \/ Enhanced_WB_UseEstimates
  \/ ReturnRecorded
SpecTwice == Init /\ [][NextTwice]_vars

----------------------------------------------------------------------------
\* The fetch_data routes of app.py (over data_collectors) and simple_app.py
\* (over enhanced_collectors)

Apps == {"app", "simple_app"}
\* the collector module each application imports
AppModule(a) == IF a = "app" THEN "data" ELSE "enhanced"

\* request.get_json(): no JSON object, or an object whose 'source' and
\* 'data_type' may be missing (None), empty, unknown or known
NoJson == [json |-> FALSE]
Absent == "<None>"
RequestBodies ==
  {NoJson} \cup
  {[json |-> TRUE, source |-> s, data_type |-> dt] :
     s \in SourcesOf("enhanced") \cup {"eurostat", "", Absent},
     dt \in Topics \cup {"", Absent}}

\* variant with a fault: only None counts as missing, the empty string passes
Missing_none_only(x) == x = Absent
\* `not x` for an optional string
Missing(x) == x = Absent \/ x = ""

\* variant with a fault: app.py routes the keys of simple_app.py too
Fetch_source_known_everywhere(a, s) == s \in SourcesOf("enhanced")
\* the if/elif chain: whether a branch matches the source key
Fetch_source_known(a, s) == s \in SourcesOf(AppModule(a))

\* jsonify(...), status
Http(status, payload) == [answered |-> TRUE, status |-> status, payload |-> payload]
\* a request of the route and the answer to it, once given
Exchange(body, answer) == [request |-> body, answer |-> answer]

\* what fetch_data answers without calling a collector, if it does
Fetch_data_early(a, body) ==
  IF ~body.json THEN Http(500, [error |-> FStr(<<"Server error: ", "AttributeError">>)])
  ELSE IF Missing(body.source) \/ Missing(body.data_type)
  THEN Http(400, [error |-> "Missing source or data_type parameter"])
  ELSE IF ~Fetch_source_known(a, body.source) THEN Http(400, [error |-> "Invalid data source"])
  ELSE NoResponse

\* variant with a fault: the failure payload is sent without the error status
Fetch_data_answer_ok(r) ==
  IF r.success
  THEN Http(200, [success |-> TRUE, data |-> r.data, metadata |-> Get(r, "metadata", <<>>)])
  ELSE Http(200, [success |-> FALSE, error |-> r.error])
\* what fetch_data answers to the dict the collector returned
Fetch_data_answer(r) ==
  IF r.success
  THEN Http(200, [success |-> TRUE, data |-> r.data, metadata |-> Get(r, "metadata", <<>>)])
  ELSE Http(500, [success |-> FALSE, error |-> r.error])

\* a POST arrives: answered at once, or the matching collector is called
Fetch_Request ==
  /\ pc = "idle"
  /\ \E a \in Apps, body \in RequestBodies :
       LET early == Fetch_data_early(a, body)
       IN /\ app' = a
          /\ http' = Exchange(body, early)
          /\ IF early = NoResponse
             THEN /\ module' = AppModule(a) /\ source' = body.source /\ data_type' = body.data_type
                  /\ pc' = Entry(AppModule(a), body.source)
             ELSE /\ module' = "none" /\ source' = "none" /\ data_type' = "none"
                  /\ pc' = "idle"
  /\ api_data' = None /\ scraped_data' = None
  /\ idx' = 0 /\ all_data' = <<>> /\ trace' = <<>> /\ all_failed' = TRUE /\ result' = Pending
  /\ previous' = NoCall

\* the collector returned: the route answers
Fetch_Respond ==
  /\ pc = "done" /\ app \in Apps
  /\ http' = Exchange(http.request, Fetch_data_answer(result))
  /\ pc' = "answered"
  /\ UNCHANGED <<module, source, data_type, api_data, scraped_data, idx, all_data, trace, all_failed, result,
                 previous, app>>

\* the request is over: its locals are gone, the process waits for the next
Fetch_Close ==
  /\ pc = "answered"
  /\ pc' = "idle" /\ module' = "none" /\ source' = "none" /\ data_type' = "none"
  /\ api_data' = None /\ scraped_data' = None
  /\ idx' = 0 /\ all_data' = <<>> /\ trace' = <<>> /\ all_failed' = TRUE /\ result' = Pending
  /\ previous' = NoCall /\ app' = "none" /\ http' = NoResponse

NextApp == Fetch_Request \/ DataSteps \/ EnhancedSteps \/ Fetch_Respond \/ Fetch_Close
SpecApp == Init /\ [][NextApp]_vars


----------------------------------------------------------------------------
\* The fetch step of the four World Bank collectors on one answered page:
\* the GET of the topic's first indicator is answered 200 with a JSON page
\* of observations, and the collector's own loop over data[1] processes it

\* topics whose catalog entry every module has
PageTopics == {"population", "Mining"}
\* the indicator code the fetch step of module m requests first for topic dt
FirstCode(m, dt) ==
  CASE m = "robust" -> Robust_WB_indicators[lower(dt)]
    [] m = "enhanced" -> Enhanced_WB_get_2025_indicators(dt)[1].code
    [] m = "working" -> Working_WB_get_indicators_by_type(dt)[1].code
    [] m = "data" -> Data_WB_get_indicators_by_type(dt)[1]
\* the 200 answer that carries the observations `items`
PageResponse(items) == Response(200, [json_ok |-> TRUE, json |-> <<PageMeta, items>>])
\* the observations of the page the step in progress was answered
PageItems == trace[1].arg

\* the GET is answered with a page of up to MaxItems observations
FetchStep_Answer ==
  /\ pc = "idle"
  /\ \E m \in Modules, dt \in PageTopics :
       /\ module' = m /\ source' = "world_bank" /\ data_type' = dt
       /\ \E items \in SeqsUpTo(ObservationKinds(FirstCode(m, dt)), MaxItems) :
            trace' = <<Ev("page", items)>>
  /\ pc' = "page"
  /\ api_data' = None /\ scraped_data' = None
  /\ idx' = 1 /\ all_data' = <<>> /\ all_failed' = TRUE /\ result' = Pending
  /\ previous' = NoCall /\ app' = "none" /\ http' = NoResponse

\* robust _try_world_bank_api on the page
FetchStep_Robust ==
  /\ pc = "page" /\ module = "robust"
  /\ api_data' = Robust_WB_try_world_bank_api(data_type, PageResponse(PageItems))
  /\ pc' = "paged"
  /\ UNCHANGED <<module, source, data_type, scraped_data, idx, all_data, trace, all_failed, result, previous, app, http>>

\* enhanced _fetch_from_multiple_apis: the primary endpoint of the first indicator
FetchStep_Enhanced ==
  /\ pc = "page" /\ module = "enhanced"
  /\ all_data' = Enhanced_WB_one_endpoint(PageResponse(PageItems), all_data,
                    Enhanced_WB_get_2025_indicators(data_type)[idx].name, "World Bank API").all_data
  /\ pc' = "paged"
  /\ UNCHANGED <<module, source, data_type, api_data, scraped_data, idx, trace, all_failed, result, previous, app, http>>

\* working collect_data: the loop body of the first indicator
FetchStep_Working ==
  /\ pc = "page" /\ module = "working"
  /\ all_data' = Working_WB_iteration(Working_WB_get_indicators_by_type(data_type)[idx],
                                      PageResponse(PageItems), all_data).all_data
  /\ pc' = "paged"
  /\ UNCHANGED <<module, source, data_type, api_data, scraped_data, idx, trace, all_failed, result, previous, app, http>>

\* data collect_data: the loop body of the first indicator
FetchStep_Data ==
  /\ pc = "page" /\ module = "data"
  /\ all_data' = Data_WB_iteration(Data_WB_get_indicators_by_type(data_type)[idx],
                                   PageResponse(PageItems), all_data).all_data
  /\ pc' = "paged"
  /\ UNCHANGED <<module, source, data_type, api_data, scraped_data, idx, trace, all_failed, result, previous, app, http>>

\* the step is over
FetchStep_End ==
  /\ pc = "paged"
  /\ pc' = "idle" /\ module' = "none" /\ source' = "none" /\ data_type' = "none"
  /\ api_data' = None /\ scraped_data' = None
  /\ idx' = 0 /\ all_data' = <<>> /\ trace' = <<>> /\ all_failed' = TRUE /\ result' = Pending
  /\ previous' = NoCall /\ app' = "none" /\ http' = NoResponse

NextFetchStep ==
  \/ FetchStep_Answer
  \/ FetchStep_Robust
  \/ FetchStep_Enhanced
  \/ FetchStep_Working
  \/ FetchStep_Data
  \/ FetchStep_End
SpecFetchStep == Init /\ [][NextFetchStep]_vars

----------------------------------------------------------------------------
\* One page through the two passes of working_collectors IMFCollector: the
\* GET of the first url is answered 200 with a page of tables and text

\* a row whose first cell names another keyword
RowDebt == [ncells |-> 2, key |-> "Public debt", keylen |-> 11, value |-> "71%", keyword |-> TRUE]
\* the tables of the page: those of TableKinds, and one with two keyword rows
ScrapeTableKinds == TableKinds \cup { <<RowDebt, RowCapital, RowGdp>> }
ScrapeBodies ==
  {[tables |-> ts, extract_ok |-> FALSE] : ts \in SeqsUpTo(ScrapeTableKinds, MaxTables)}
    \cup {[tables |-> ts, extract_ok |-> TRUE, found |-> f] :
            ts \in SeqsUpTo(ScrapeTableKinds, MaxTables), f \in [1..4 -> {0, 1, MaxMatches}]}
\* the body of the page the step in progress was answered
PageBody == trace[1].arg

\* the GET is answered with a page
ScrapeStep_Answer ==
  /\ pc = "idle"
  /\ \E dt \in PageTopics, body \in ScrapeBodies :
       /\ module' = "working" /\ source' = "imf" /\ data_type' = dt
       /\ trace' = <<Ev("page", body)>>
  /\ pc' = "page"
  /\ api_data' = None /\ scraped_data' = None
  /\ idx' = 1 /\ all_data' = <<>> /\ all_failed' = TRUE /\ result' = Pending
  /\ previous' = NoCall /\ app' = "none" /\ http' = NoResponse

\* the loop body of collect_data on the page: the table pass, then the text pass
ScrapeStep_IMF ==
  /\ pc = "page" /\ module = "working" /\ source = "imf"
  /\ \E day \in Days :
       all_data' = Working_IMF_iteration(Response(200, PageBody), all_data, data_type, day).all_data
  /\ pc' = "paged"
  /\ UNCHANGED <<module, source, data_type, api_data, scraped_data, idx, trace, all_failed, result, previous, app, http>>

\* the step is over
ScrapeStep_End ==
  /\ pc = "paged"
  /\ pc' = "idle" /\ module' = "none" /\ source' = "none" /\ data_type' = "none"
  /\ api_data' = None /\ scraped_data' = None
  /\ idx' = 0 /\ all_data' = <<>> /\ trace' = <<>> /\ all_failed' = TRUE /\ result' = Pending
  /\ previous' = NoCall /\ app' = "none" /\ http' = NoResponse

NextScrapeStep == ScrapeStep_Answer \/ ScrapeStep_IMF \/ ScrapeStep_End
SpecScrapeStep == Init /\ [][NextScrapeStep]_vars
----------------------------------------------------------------------------
\* Observations of a call, for the properties below

\* the strategies the call has invoked, in order
StrategyCalls ==
  LET calls == SelectSeq(trace, LAMBDA e : e.ev = "call")
  IN [i \in 1..Len(calls) |-> calls[i].arg]
\* the GETs the call has issued, in order
Gets == SelectSeq(trace, LAMBDA e : e.ev = "get")
Called(strategy) == \E i \in DOMAIN StrategyCalls : StrategyCalls[i] = strategy
IsPrefix(s, t) == Len(s) <= Len(t) /\ SubSeq(t, 1, Len(s)) = s
IsRobustWB == module = "robust" /\ source = "world_bank"
Returned == pc = "done"

----------------------------------------------------------------------------
\* Properties

\* C1: for every collector and every topic, whatever each request does,
\* collect_data does not raise: what the caller gets is a dict with a boolean
\* 'success'.
C1_NeverRaises ==
  Returned => HasKey(result, "success") /\ result.success \in BOOLEAN
\* the GET of data_collectors.IMFCollector timed out and the except clause
\* turned the exception into a failure dict
C1_Witness ==
  /\ Returned /\ module = "data" /\ source = "imf"
  /\ result = Failure(FStr(<<"IMF website scraping failed: ", "ConnectTimeout">>))

\* C2: robust WorldBankCollector, topic absent from the reference table, fetch
\* and scrape both without result: the call returns a failure whose error is
\* non-empty and names the topic and the source, not a success with no records.
C2_AbsentTopicFails ==
  (Returned /\ IsRobustWB /\ ~HasKey(Robust_WB_base_data, lower(data_type))
     /\ ~Truthy(api_data) /\ ~Truthy(scraped_data))
  => /\ result.success = FALSE
     /\ HasKey(result, "error") /\ NonEmptyStr(result.error)
     /\ Mentions(result.error, data_type) /\ Mentions(result.error, "World Bank")
     /\ ~HasKey(result, "data")

\* C3: every returned result is a success with a non-empty 'data' list and no
\* 'error', or a failure with a non-empty 'error' and no 'data'.
C3_TwoShapes ==
  Returned =>
    /\ HasKey(result, "success")
    /\ \/ /\ result.success = TRUE
          /\ HasKey(result, "data") /\ result.data # <<>>
          /\ ~HasKey(result, "error")
       \/ /\ result.success = FALSE
          /\ HasKey(result, "error") /\ NonEmptyStr(result.error)
          /\ ~HasKey(result, "data")

\* C4: robust WorldBankCollector invokes fetch, scrape, reference in that
\* order, each at most once: scrape only after fetch gave no result, reference
\* only after fetch and scrape both gave no result.
C4_FixedOrder ==
  IsRobustWB =>
    /\ IsPrefix(StrategyCalls, <<"fetch", "scrape", "reference">>)
    /\ Called("scrape") => ~Truthy(api_data)
    /\ Called("reference") => ~Truthy(api_data) /\ ~Truthy(scraped_data)
    /\ Returned => StrategyCalls # <<>>
\* a call that went through all three steps
C4_Witness ==
  Returned /\ IsRobustWB /\ StrategyCalls = <<"fetch", "scrape", "reference">>

\* C5: robust WorldBankCollector, fetch returns a non-empty list: the result
\* is success with exactly that list as 'data', and neither scrape nor the
\* reference table is invoked.
C5_FetchShortCircuits ==
  (IsRobustWB /\ Truthy(api_data)) =>
    /\ Returned
    /\ result.success = TRUE /\ result.data = api_data.list
    /\ StrategyCalls = <<"fetch">>
\* fetch returned two different records, in an order that matters
C5_Witness ==
  /\ Returned /\ IsRobustWB /\ Truthy(api_data)
  /\ Len(api_data.list) >= 2 /\ api_data.list[1] # api_data.list[2]

\* C6: robust WorldBankCollector, fetch gives no result and scrape returns a
\* non-empty list: the result is success with exactly the scrape records, fetch
\* and scrape were each attempted once and the reference table not at all.
C6_ScrapeShortCircuits ==
  (IsRobustWB /\ ~Truthy(api_data) /\ Truthy(scraped_data)) =>
    /\ Returned
    /\ result.success = TRUE /\ result.data = scraped_data.list
    /\ StrategyCalls = <<"fetch", "scrape">>
\* the GET of fetch was answered without records, scrape found two records
C6_Witness ==
  /\ Returned /\ IsRobustWB /\ ~Truthy(api_data) /\ Truthy(scraped_data)
  /\ Len(Gets) = 2 /\ Len(scraped_data.list) >= 2

\* C7: robust WorldBankCollector, topic in the reference table, fetch and
\* scrape both without result: the result is success and its records are the
\* table entries of the topic in table order (Indicator, Value, Unit), each
\* with a 'Note'.
C7_ReferenceEntries ==
  (Returned /\ IsRobustWB /\ HasKey(Robust_WB_base_data, lower(data_type))
     /\ ~Truthy(api_data) /\ ~Truthy(scraped_data))
  => LET entries == Robust_WB_base_data[lower(data_type)]
     IN /\ result.success = TRUE
        /\ Len(result.data) = Len(entries)
        /\ \A i \in 1..Len(entries) :
             /\ result.data[i].Indicator = entries[i].Indicator
             /\ result.data[i].Value = entries[i].Value
             /\ result.data[i].Unit = Get(entries[i], "Unit", "")
             /\ HasKey(result.data[i], "Note") /\ result.data[i].Note # ""
\* the topic was given capitalised and the table answered
C7_Witness ==
  /\ Returned /\ IsRobustWB /\ data_type = "Mining" /\ Called("reference")
  /\ result.data # <<>>

\* the records of the result all carry a note / none carries one
AllNoted == \A i \in DOMAIN result.data : HasKey(result.data[i], "Note") /\ result.data[i].Note # ""
NoneNoted == \A i \in DOMAIN result.data : ~HasKey(result.data[i], "Note")
\* the call served its static table
ServedReference == Returned /\ Called("reference") /\ result.success = TRUE

AllRequestsFailed == Returned /\ Gets # <<>> /\ all_failed

\* C9 as stated: in every collector, a call all of whose requests failed
\* transiently does not return a failure.
C9_TransientNeverSurfaced ==
  AllRequestsFailed => result.success = TRUE
\* C9 amended: in robust_collectors, enhanced_collectors and
\* working_collectors a call all of whose requests failed transiently returns
\* success from a later strategy; in data_collectors, which has no later
\* strategy, it returns a failure.
C9_TransientRecovered ==
  /\ (AllRequestsFailed /\ module \in {"robust", "enhanced", "working"}) => result.success = TRUE
  /\ (AllRequestsFailed /\ module = "data") => result.success = FALSE
\* the working WorldBankCollector: every indicator request failed, the
\* placeholder record was served
C9_Witness ==
  /\ AllRequestsFailed /\ module = "working" /\ source = "world_bank"
  /\ Len(Gets) >= 2 /\ result.success = TRUE /\ Called("reference")

\* C10 as stated: every success result has a 'metadata' with 'source' and
\* 'country'.
C10_SourceAndCountry ==
  (Returned /\ result.success = TRUE) =>
    /\ HasKey(result, "metadata")
    /\ HasKey(result.metadata, "source") /\ HasKey(result.metadata, "country")
\* C10 amended: every success result has a 'metadata' with 'source'; it has
\* 'country' exactly in robust_collectors, in enhanced_collectors and in the
\* WorldBankCollector of working_collectors and data_collectors.
C10_SourceAlways ==
  (Returned /\ result.success = TRUE) =>
    /\ HasKey(result, "metadata")
    /\ HasKey(result.metadata, "source")
    /\ HasKey(result.metadata, "country") <=> (module \in {"robust", "enhanced"} \/ source = "world_bank")
\* data_collectors.WorldBankCollector returned records of two indicators
C10_Witness ==
  /\ Returned /\ module = "data" /\ source = "world_bank" /\ result.success = TRUE
  /\ result.metadata.records_count >= 2

\* the field names of a record, and the strategy whose return the result is
FieldNames(record) == DOMAIN record
ProducedBy == StrategyCalls[Len(StrategyCalls)]
Robust_WB_fetch_fields == {"Indicator", "Year", "Value", "Country", "Source"}
Robust_WB_scrape_fields == {"Indicator", "Value", "Source", "Country", "Date"}
Robust_WB_reference_fields == {"Indicator", "Value", "Unit", "Country", "Source", "Date", "Note"}

\* C11 as stated: the records of the robust WorldBankCollector have one and
\* the same set of field names whichever strategy produced them (the one the
\* reference records have).
C11_SameFieldsEveryStrategy ==
  (Returned /\ IsRobustWB /\ result.success = TRUE) =>
    \A i \in DOMAIN result.data : FieldNames(result.data[i]) = Robust_WB_reference_fields
\* C11 amended: the records of one result of the robust WorldBankCollector
\* all have the same field names, fixed by the strategy that produced them:
\* fetch gives Indicator, Year, Value, Country, Source; scrape gives Indicator,
\* Value, Source, Country, Date; the reference table gives Indicator, Value,
\* Unit, Country, Source, Date, Note.
C11_FieldsPerStrategy ==
  (Returned /\ IsRobustWB /\ result.success = TRUE) =>
    \A i \in DOMAIN result.data :
      FieldNames(result.data[i]) =
        CASE ProducedBy = "fetch" -> Robust_WB_fetch_fields
          [] ProducedBy = "scrape" -> Robust_WB_scrape_fields
          [] ProducedBy = "reference" -> Robust_WB_reference_fields
\* a result of the fetch step with two records
C11_Witness ==
  /\ Returned /\ IsRobustWB /\ ProducedBy = "fetch"
  /\ Len(result.data) >= 2 /\ FieldNames(result.data[2]) = Robust_WB_fetch_fields

\* the call before served the static table, and so did this one
SecondReferenceCall == Returned /\ previous # NoCall /\ ReferenceServed /\ result.success = TRUE
\* two record lists that differ at most in the 'Date' of their records
SameButDate(a, b) ==
  /\ Len(a) = Len(b)
  /\ \A i \in DOMAIN a : [a[i] EXCEPT !.Date = "-"] = [b[i] EXCEPT !.Date = "-"]

\* C12 as stated: two consecutive calls for one topic that both end in the
\* static table return identical record lists, in the robust and in the
\* enhanced WorldBankCollector, whenever the calls are made.
C12_Idempotent ==
  SecondReferenceCall => result.data = previous.data
\* C12 amended: the two lists are identical in the robust WorldBankCollector;
\* in the enhanced WorldBankCollector they are identical except for the
\* 'Date' field, which is the day of the call.
C12_IdempotentButDate ==
  /\ (SecondReferenceCall /\ module = "robust") => result.data = previous.data
  /\ (SecondReferenceCall /\ module = "enhanced") => SameButDate(result.data, previous.data)
\* the enhanced WorldBankCollector served its estimates on two different days
C12_Witness ==
  /\ SecondReferenceCall /\ module = "enhanced"
  /\ result.data # <<>> /\ result.data[1].Date # previous.data[1].Date

\* a route is serving a request that carries a JSON object
Serving == app \in Apps /\ http # NoResponse /\ http.request.json
\* no collect_data has been invoked for the request
NothingInvoked == module = "none" /\ trace = <<>> /\ result = Pending

\* C13: in the fetch_data routes a request whose 'source' is not a known key
\* of the application is answered 400 with an error payload and no collector
\* is invoked; a collector runs only for a source key that matched.
C13_UnknownSourceRejected ==
  /\ (Serving /\ http.request.source \notin SourcesOf(AppModule(app)))
       => /\ http.answer # NoResponse /\ http.answer.status = 400
          /\ HasKey(http.answer.payload, "error")
          /\ NothingInvoked
  /\ (app \in Apps /\ module # "none")
       => /\ module = AppModule(app)
          /\ source = http.request.source /\ source \in SourcesOf(AppModule(app))
\* app.py was asked for 'afdb', a key only simple_app.py knows
C13_Witness ==
  /\ Serving /\ app = "app" /\ http.request.source = "afdb" /\ http.request.data_type = "economy"
  /\ http.answer = Http(400, [error |-> "Invalid data source"])

\* C14: in the fetch_data routes a failure result of the collector is
\* answered with status 500 and the payload {success: false, error: the
\* collector's error}; a success result with status 200 and the collector's
\* data and metadata unchanged.
C14_ResultRelayed ==
  pc = "answered" =>
    /\ result.success = FALSE =>
         http.answer = Http(500, [success |-> FALSE, error |-> result.error])
    /\ result.success = TRUE =>
         /\ http.answer.status = 200 /\ http.answer.payload.success = TRUE
         /\ http.answer.payload.data = result.data
         /\ http.answer.payload.metadata = result.metadata
         /\ ~HasKey(http.answer.payload, "error")
\* app.py relayed the failure of its World Bank collector
C14_Witness ==
  /\ pc = "answered" /\ app = "app" /\ source = "world_bank"
  /\ result = Failure(FStr(<<"No data retrieved from World Bank API">>))
  /\ http.answer.status = 500


----------------------------------------------------------------------------
\* The per-indicator loops of the World Bank collectors

\* the call in progress is one of the three collect_data that loop over a catalog
LoopingCall == source = "world_bank" /\ module \in {"data", "working", "enhanced"}
\* the indicator codes the loop of the call in progress goes over, in order
LoopCodes ==
  CASE module = "data" -> Data_WB_get_indicators_by_type(data_type)
    [] module = "working" ->
         [i \in 1..Len(Working_WB_get_indicators_by_type(data_type)) |->
            Working_WB_get_indicators_by_type(data_type)[i].code]
    [] module = "enhanced" ->
         [i \in 1..Len(Enhanced_WB_get_2025_indicators(data_type)) |->
            Enhanced_WB_get_2025_indicators(data_type)[i].code]
    [] OTHER -> <<>>
IsGet(e) == e.ev = "get"
IsSleep(e) == e.ev = "sleep"
\* the codes of the GETs of the call so far, in the order they were sent
GetCodes == [i \in 1..Len(SelectSeq(trace, IsGet)) |-> SelectSeq(trace, IsGet)[i].arg]
RECURSIVE Collapse(_)
\* a sequence without its immediate repetitions
Collapse(s) ==
  IF Len(s) < 2 THEN s
  ELSE IF s[1] = s[2] THEN Collapse(Tail(s)) ELSE <<s[1]>> \o Collapse(Tail(s))

\* C15: in each of the three per-indicator loops (data, working, enhanced
\* World Bank collect_data) a failure of one indicator never ends the loop:
\* after k iterations exactly the first k codes of the catalog were
\* requested, in order, whatever failed; once the loop is over every code
\* was requested; and an iteration never removes a record that an earlier
\* iteration appended.
C15_LoopNeverAborts ==
  /\ [](LoopingCall /\ pc = "loop" => /\ idx <= Len(LoopCodes) + 1
                                      /\ Collapse(GetCodes) = SubSeq(LoopCodes, 1, idx - 1))
  /\ [](LoopingCall /\ pc \in {"reference", "done"} /\ LoopCodes # <<>> => Collapse(GetCodes) = LoopCodes)
  /\ [][LoopingCall /\ pc = "loop" => IsPrefix(all_data, all_data')]_vars
\* data_collectors returned records although its first and its last
\* indicator failed: both GETs are not followed by a sleep
C15_Witness ==
  /\ module = "data" /\ source = "world_bank" /\ pc = "done"
  /\ result.success = TRUE /\ result.data = all_data /\ all_data # <<>>
  /\ Len(trace) > 3 /\ IsGet(trace[2]) /\ IsGet(trace[3]) /\ IsGet(trace[Len(trace)])
  /\ Collapse(GetCodes) = LoopCodes

----------------------------------------------------------------------------
\* The fetch step on one page

\* the records the fetch step hands on: the list _try_world_bank_api
\* returns (None is no record), the all_data list of the loops
Emitted == IF module = "robust" THEN (IF api_data.isNone THEN <<>> ELSE api_data.list) ELSE all_data
\* an observation whose value is read but whose other fields are missing:
\* the subscripts item['indicator'], item['date'] raise KeyError on it
Faulting(item) == JNotNone(Get(item, "value", JNull)) /\ ~(HasKey(item, "indicator") /\ HasKey(item, "date"))
PageFaults == \E i \in DOMAIN PageItems : Faulting(PageItems[i])
NonNull(item) == JNotNone(Get(item, "value", JNull))
\* the values of the observations of the page that are not null, in page order
NonNullValues == [i \in 1..Len(SelectSeq(PageItems, NonNull)) |-> SelectSeq(PageItems, NonNull)[i].value]
EmittedValues == [i \in 1..Len(Emitted) |-> Emitted[i].Value]

\* C16: when the processing of an indicator's page raises partway through
\* its observations, the fetch step of data_collectors and robust_collectors
\* World Bank keeps no record of that page.
C16_NoPartialOutput ==
  pc = "paged" /\ module \in {"data", "robust"} /\ PageFaults => Emitted = <<>>

\* C17: on a page every observation of which is well-formed, the fetch step of
\* each of the four World Bank collectors emits exactly one record per
\* observation with a non-null value (0 included), in page order, and none
\* for a null value.
C17_OnePerNonNull ==
  pc = "paged" /\ ~PageFaults => EmittedValues = NonNullValues

----------------------------------------------------------------------------
\* What the live strategies of robust_collectors return

\* None, or a list that is not empty
NoneOrRecords(x) == x.isNone \/ x.list # <<>>

\* C18: whatever its GET is answered (exception, status other than 200,
\* unparsable or unusable page, page without a matching record), each live
\* strategy function of robust_collectors (_try_world_bank_api,
\* _scrape_world_bank_page, _scrape_imf_data) returns None or a non-empty
\* list, never an empty list, and no exception leaves it.
C18_NoneOrRecords ==
  module = "robust" =>
    /\ NoneOrRecords(api_data) /\ NoneOrRecords(scraped_data)
    /\ ~HasKey(result, "raised")
    /\ (HasKey(result, "success") /\ ~ReferenceServed => result.success = TRUE /\ result.data # <<>>)
\* a GET of the World Bank collector was answered a usable page, yet neither
\* live strategy found a record: both returned None and the table was served
C18_Witness ==
  /\ module = "robust" /\ source = "world_bank" /\ pc = "done"
  /\ ReferenceServed /\ ~all_failed
  /\ api_data = None /\ scraped_data = None

----------------------------------------------------------------------------
\* The catalog lookup, seen through the codes a call requests

\* the indicator catalog of the module of the call in progress
Catalog ==
  CASE module = "data" -> Data_WB_indicators_map
    [] module = "working" -> Working_WB_indicators_map
    [] module = "enhanced" -> Enhanced_WB_indicators
\* the codes of one catalog entry, in order (data_collectors keeps bare codes)
CodesIn(entry) == IF module = "data" THEN entry ELSE [i \in 1..Len(entry) |-> entry[i].code]
\* the topic of the call, lowercased, is a key of the catalog
TopicCatalogued == lower(data_type) \in DOMAIN Catalog

\* C19 as stated: in data_collectors, working_collectors and
\* enhanced_collectors the lookup is case-insensitive (the codes requested
\* for a topic are those of the entry of the lowercased topic) and total
\* with an empty result: for a topic that is no catalog key nothing is
\* requested.
C19_UnknownTopicEmpty ==
  LoopingCall /\ pc = "done" =>
    IF TopicCatalogued THEN Collapse(GetCodes) = CodesIn(Catalog[lower(data_type)])
    ELSE GetCodes = <<>>

\* C19, amended: the lookup is case-insensitive in all three modules; for a
\* topic that is no catalog key data_collectors and working_collectors find
\* no indicators and request nothing, while enhanced_collectors
\* _get_2025_indicators yields the 'economy' entry and requests its codes.
C19_UnknownTopicEmptyOrEconomy ==
  LoopingCall /\ pc = "done" =>
    IF TopicCatalogued THEN Collapse(GetCodes) = CodesIn(Catalog[lower(data_type)])
    ELSE IF module = "enhanced" THEN Collapse(GetCodes) = CodesIn(Catalog["economy"])
    ELSE GetCodes = <<>> /\ result.success = FALSE
\* enhanced_collectors was asked for 'energy' and requested the economy codes
C19_Witness ==
  /\ module = "enhanced" /\ source = "world_bank" /\ pc = "done" /\ data_type = "energy"
  /\ ~TopicCatalogued /\ GetCodes # <<>>
  /\ GetCodes[1] = Enhanced_WB_indicators["economy"][1].code

----------------------------------------------------------------------------
\* The GETs of one fetch attempt

\* how often the code c was requested by the call so far
TimesRequested(c) == Cardinality({i \in DOMAIN GetCodes : GetCodes[i] = c})
FetchLoopOver == source = "world_bank" /\ module \in {"working", "enhanced"} /\ pc \in {"reference", "done"}

\* C20 as stated: in a fetch attempt of working_collectors collect_data and
\* of enhanced_collectors _fetch_from_multiple_apis exactly one GET is sent
\* per indicator code of the topic's catalog entry.
C20_OneGetPerCode ==
  FetchLoopOver => GetCodes = LoopCodes

\* C20 amended: working_collectors sends exactly one GET per code;
\* enhanced_collectors sends one or two GETs per code, one after the other
\* (the primary endpoint, then the alternative endpoint unless the first
\* attempt raised), so between N and 2N GETs for N codes.
C20_OneOrTwoGetsPerCode ==
  FetchLoopOver =>
    IF module = "working" THEN GetCodes = LoopCodes
    ELSE /\ Collapse(GetCodes) = LoopCodes
         /\ \A i \in DOMAIN LoopCodes : TimesRequested(LoopCodes[i]) \in {1, 2}
\* an attempt of enhanced_collectors that sent two GETs for its first code
\* and one for its last
C20_Witness ==
  /\ module = "enhanced" /\ source = "world_bank" /\ pc = "done"
  /\ LoopCodes # <<>>
  /\ TimesRequested(LoopCodes[1]) = 2
  /\ TimesRequested(LoopCodes[Len(LoopCodes)]) = 1

----------------------------------------------------------------------------
\* The rate-limiting delay of the per-indicator loops

\* C21: in the per-indicator loops of data_collectors and working_collectors
\* World Bank collect_data a sleep happens between every two consecutive
\* indicator requests, also after a request that failed or was answered a
\* malformed body: no GET of the call directly follows another GET.
C21_SleepBetweenRequests ==
  source = "world_bank" /\ module \in {"data", "working"} =>
    \A i \in DOMAIN trace :
      (i < Len(trace) /\ IsGet(trace[i])) => ~IsGet(trace[i + 1])

----------------------------------------------------------------------------
\* The free-text pass: records per pattern

\* the call in progress is one that applies regular expressions to page text
FreeTextCall ==
  \/ module = "data" /\ source \in {"imf", "usaid", "un"}
  \/ module = "working" /\ source \in {"imf", "usaid"}
\* the call returned records it scraped (not its placeholder)
ScrapedReturned == pc = "done" /\ HasKey(result, "success") /\ result.success = TRUE /\ ~ReferenceServed
\* the record was made from a table row: its 'Indicator' is the row's first cell
IsTableRecord(r) == \E t \in ScrapeTableKinds : \E i \in DOMAIN t : r.Indicator = t[i].key
\* the pattern whose match the free-text record r holds in its 'Value'
\* (working USAIDCollector writes the funding match as f'${match}')
PatternOf(r) == IF r.Indicator = "USAID Funding Amount" THEN r.Value[2].pattern ELSE r.Value.pattern
\* positions of the records of the result that pattern k of the page labelled src contributed
FromPattern(src, k) ==
  {i \in DOMAIN result.data :
     /\ result.data[i].Source = src
     /\ ~IsTableRecord(result.data[i])
     /\ PatternOf(result.data[i]) = k}
SourceLabels == {"IMF Website", "USAID Website", "UNICEF", "UN Data"}

\* C22 as stated: in the free-text pass of data_collectors (_parse_imf_content,
\* _parse_usaid_content, _parse_un_content) and of working_collectors each
\* pattern contributes at most 5 records, whatever the page and the topic.
C22_AtMostFivePerPattern ==
  FreeTextCall /\ ScrapedReturned =>
    \A src \in SourceLabels, k \in 1..4 : Cardinality(FromPattern(src, k)) <= 5

\* C22 amended: each pattern contributes at most 5 records, except the
\* general numeric pattern of data_collectors _parse_imf_content for a topic
\* other than economy, which contributes at most 10.
C22_AtMostFiveOrTenPerPattern ==
  FreeTextCall /\ ScrapedReturned =>
    \A src \in SourceLabels, k \in 1..4 :
      Cardinality(FromPattern(src, k)) <=
        (IF module = "data" /\ source = "imf" /\ lower(data_type) # "economy" THEN 10 ELSE 5)
\* data_collectors IMFCollector returned ten records of its numeric pattern
\* for 'health' from a page with more than ten matches
C22_Witness ==
  /\ module = "data" /\ source = "imf" /\ data_type = "health" /\ ScrapedReturned
  /\ Cardinality(FromPattern("IMF Website", 3)) = 10
  /\ Len(result.data) = 10

----------------------------------------------------------------------------
\* The order of the records of one page of working_collectors IMFCollector

IsKeywordRow(row) == row.ncells >= 2 /\ row.keyword
\* the rows of the page that name a keyword, in document order (table, then row)
KeywordRows == SelectSeq(Rows(Take(PageBody.tables, 3)), IsKeywordRow)
Min(a, b) == IF a < b THEN a ELSE b
\* how many records the text pass makes: two matches at most per pattern
TextRecords ==
  IF PageBody.extract_ok
  THEN Min(PageBody.found[1], 2) + Min(PageBody.found[2], 2) + Min(PageBody.found[3], 2) + Min(PageBody.found[4], 2)
  ELSE 0

\* C23: of the records working_collectors IMFCollector makes from one page,
\* those of the table pass come first, one per keyword row in document order
\* (table, then row); those of the text pass follow, in the order of the
\* pattern list and, within a pattern, in match order.
C23_TablesThenText ==
  pc = "paged" /\ module = "working" /\ source = "imf" =>
    /\ Len(all_data) = Len(KeywordRows) + TextRecords
    /\ \A i \in 1..Len(KeywordRows) :
         all_data[i].Indicator = KeywordRows[i].key /\ all_data[i].Value = KeywordRows[i].value
    /\ \A i \in (Len(KeywordRows) + 1)..Len(all_data) :
         /\ ~IsTableRecord(all_data[i])
         /\ i < Len(all_data) =>
              \/ all_data[i].Value.pattern < all_data[i + 1].Value.pattern
              \/ /\ all_data[i].Value.pattern = all_data[i + 1].Value.pattern
                 /\ all_data[i].Value.group < all_data[i + 1].Value.group
\* a page with two different keyword rows and matches of two patterns: the
\* records are debt row, GDP row, then the text records
C23_Witness ==
  /\ pc = "paged" /\ module = "working" /\ source = "imf"
  /\ Len(KeywordRows) >= 2 /\ KeywordRows[1] = RowDebt /\ KeywordRows[2] = RowGdp
  /\ PageBody.extract_ok /\ PageBody.found[1] > 1 /\ PageBody.found[3] > 0
  /\ Len(all_data) >= 5
  /\ all_data[1].Indicator = "Public debt"

----------------------------------------------------------------------------
\* The source label of robust_collectors WorldBankCollector

\* the label collect_data gives the strategy that produced the records
Robust_WB_source_label(strategy) ==
  CASE strategy = "fetch" -> "World Bank API"
    [] strategy = "scrape" -> "World Bank Website"
    [] strategy = "reference" -> "World Bank Reference Data"

\* C24: the 'source' of the metadata of a result of robust_collectors
\* WorldBankCollector names the strategy that produced the records ('World
\* Bank API' exactly for the fetch step's list, 'World Bank Website' exactly
\* for the scrape step's, 'World Bank Reference Data' exactly for the
\* reference table), and every record's 'Source' equals that label.
C24_SourceNamesStrategy ==
  IsRobustWB /\ Returned =>
    /\ result.success = TRUE
    /\ result.metadata.source = Robust_WB_source_label(ProducedBy)
    /\ (ProducedBy = "fetch" <=> Truthy(api_data))
    /\ (ProducedBy = "scrape" <=> ~Truthy(api_data) /\ Truthy(scraped_data))
    /\ (ProducedBy = "fetch" => result.data = api_data.list)
    /\ (ProducedBy = "scrape" => result.data = scraped_data.list)
    /\ (ProducedBy = "reference" => result.data = Robust_WB_get_fallback_data(data_type))
    /\ \A i \in DOMAIN result.data : result.data[i].Source = result.metadata.source
\* the scrape step produced the records of a returned result
C24_Witness ==
  /\ IsRobustWB /\ Returned /\ ProducedBy = "scrape"
  /\ result.data # <<>> /\ result.data = scraped_data.list
  /\ result.metadata.source = "World Bank Website"

----------------------------------------------------------------------------
\* The default topic of the static tables

\* the call in progress is on a collector whose static table has a default topic
DefaultingCall ==
  \/ module = "robust" /\ source \in {"imf", "usaid", "un"}
  \/ module = "enhanced"
\* the static table of the collector of the call in progress
StaticTable ==
  CASE module = "robust" /\ source = "imf" -> Robust_IMF_imf_data
    [] module = "robust" /\ source = "usaid" -> Robust_USAID_programs
    [] module = "robust" /\ source = "un" -> Robust_UN_un_stats
    [] module = "enhanced" /\ source = "world_bank" -> Enhanced_WB_current_data
    [] module = "enhanced" /\ source = "imf" -> Enhanced_IMF_imf_projections
    [] module = "enhanced" /\ source = "usaid" -> Enhanced_USAID_programs
    [] module = "enhanced" /\ source = "un" -> Enhanced_UN_sdg_data
    [] module = "enhanced" /\ source = "afdb" -> Enhanced_AfDB_afdb_projects
    [] module = "enhanced" /\ source = "zambian_stats" -> Enhanced_ZS_official_stats
\* the topic whose entry stands in for a topic the table does not have
DefaultTopic ==
  CASE source \in {"world_bank", "imf", "afdb", "zambian_stats"} -> "economy"
    [] source = "usaid" -> "health"
    [] source = "un" -> "population"
\* what a table entry is called, and what the record made of it is called
EntryName(e) ==
  CASE HasKey(e, "Indicator") -> e.Indicator
    [] HasKey(e, "Program") -> e.Program
    [] HasKey(e, "SDG_Indicator") -> e.SDG_Indicator
    [] HasKey(e, "Project") -> e.Project
    [] HasKey(e, "Statistic") -> e.Statistic
RecordName(r) ==
  CASE HasKey(r, "Indicator") -> r.Indicator
    [] HasKey(r, "Program") -> r.Program
    [] HasKey(r, "Program_Name") -> r.Program_Name
    [] HasKey(r, "SDG_Indicator") -> r.SDG_Indicator
    [] HasKey(r, "Project_Name") -> r.Project_Name
    [] HasKey(r, "Official_Statistic") -> r.Official_Statistic
EntryNames(entries) == [i \in 1..Len(entries) |-> EntryName(entries[i])]
RecordNames(records) == [i \in 1..Len(records) |-> RecordName(records[i])]
TopicInTable == lower(data_type) \in DOMAIN StaticTable

\* C25: the IMF, USAID and UN collectors of robust_collectors and every
\* collector of enhanced_collectors return success with a non-empty list for
\* every topic string; when they serve their static table for a topic that
\* is no key of it, the records are those of the default topic's entry
\* (economy for World Bank, IMF, AfDB and Zambian statistics, health for
\* USAID, population for UN), in the entry's order.
C25_DefaultTopicServed ==
  DefaultingCall /\ Returned =>
    /\ result.success = TRUE /\ result.data # <<>>
    /\ (ReferenceServed /\ ~TopicInTable =>
          RecordNames(result.data) = EntryNames(StaticTable[DefaultTopic]))
    /\ (ReferenceServed /\ TopicInTable =>
          RecordNames(result.data) = EntryNames(StaticTable[lower(data_type)]))
\* the USAID collector of robust_collectors was asked for 'energy' and
\* returned its health programs
C25_Witness ==
  /\ module = "robust" /\ source = "usaid" /\ data_type = "energy" /\ Returned
  /\ ~TopicInTable /\ result.success = TRUE /\ result.data # <<>>
  /\ RecordNames(result.data) = EntryNames(Robust_USAID_programs["health"])
  /\ result.data[1].Type = "Energy"

----------------------------------------------------------------------------
\* The placeholder records of working_collectors

\* the status messages the placeholder records carry as their 'Value'
Working_status_messages ==
  { "API connection issue - please check World Bank API availability",
    "IMF website access restricted or data format changed",
    "USAID website access limited or data structure changed",
    "UN data portal access restricted - visit data.un.org for latest statistics" }

\* C26: a collect_data of working_collectors whose requests all failed or
\* gave no record returns success with placeholder records, each with a
\* status message as its 'Value': never a failure, never an empty list.  The
\* one failure is that of the WorldBankCollector for a topic without
\* catalogued indicators.
C26_PlaceholderNotFailure ==
  module = "working" /\ Returned =>
    /\ HasKey(result, "success")
    /\ (result.success = FALSE <=>
          source = "world_bank" /\ ~HasKey(Working_WB_indicators_map, lower(data_type)))
    /\ (result.success = TRUE => result.data # <<>>)
    /\ (result.success = TRUE /\ source # "un" => (ReferenceServed <=> all_data = <<>>))
    /\ (result.success = TRUE /\ source # "un" /\ ~ReferenceServed => result.data = all_data)
    /\ (result.success = TRUE /\ ReferenceServed =>
          \A i \in DOMAIN result.data : result.data[i].Value \in Working_status_messages)
    /\ (result.success = TRUE /\ ~ReferenceServed =>
          \A i \in DOMAIN result.data : HasKey(result.data[i], "Value") /\ ~HasKey(result.data[i], "Note"))
\* both pages of the IMF collector failed and the status record was returned
C26_Witness ==
  /\ module = "working" /\ source = "imf" /\ Returned
  /\ Len(Gets) = 2 /\ all_failed
  /\ result.success = TRUE /\ Len(result.data) = 1
  /\ result.data[1].Value = "IMF website access restricted or data format changed"

----------------------------------------------------------------------------
\* The url loops of working_collectors IMFCollector and USAIDCollector

UrlLoopCall == module = "working" /\ source \in {"imf", "usaid"}
\* the url list of the collector of the call in progress
UrlList == IF source = "imf" THEN Working_IMF_urls ELSE Working_USAID_urls

\* C27: working_collectors IMFCollector and USAIDCollector request their
\* urls in list order; a further url is requested only while no record has
\* been produced, so the call stops requesting at the first url that gave a
\* record and the result holds the records of that url alone; it stops
\* early only for that reason.
C27_StopAtFirstUrlWithRecords ==
  UrlLoopCall =>
    /\ IsPrefix(GetCodes, UrlList)
    /\ (pc = "loop" /\ idx <= Len(UrlList) => all_data = <<>> /\ Len(GetCodes) = idx - 1)
    /\ (Returned /\ Len(GetCodes) < Len(UrlList) => all_data # <<>>)
    /\ (Returned /\ all_data # <<>> => result.success = TRUE /\ result.data = all_data /\ ~ReferenceServed)
\* the first url of the USAID collector gave no record, the second did
C27_Witness ==
  /\ module = "working" /\ source = "usaid" /\ Returned
  /\ GetCodes = Working_USAID_urls
  /\ all_data # <<>> /\ result.data = all_data

----------------------------------------------------------------------------
\* The size of what a live strategy returns

\* the length of an optional list, 0 for None
Count(x) == IF x.isNone THEN 0 ELSE Len(x.list)

\* C28: whatever the upstream answers, _try_world_bank_api returns at most 5
\* records, _scrape_world_bank_page at most 5, _scrape_imf_data at most 3
\* (robust_collectors), and working_collectors UNCollector returns at most
\* 10 records scraped from the portal.
C28_LiveResultBounded ==
  /\ (module = "robust" /\ source = "world_bank" => Count(api_data) <= 5 /\ Count(scraped_data) <= 5)
  /\ (module = "robust" /\ source = "imf" => Count(scraped_data) <= 3)
  /\ (module = "working" /\ source = "un" /\ Returned /\ ~ReferenceServed => Len(result.data) <= 10)
\* the API answered a page of more than five observations and the fetch step
\* returned the first five
C28_Witness ==
  /\ module = "robust" /\ source = "world_bank" /\ Returned
  /\ Count(api_data) = 5 /\ result.data = api_data.list
  /\ result.data[5].Value = JNum(5)

----------------------------------------------------------------------------
\* The two pages of data_collectors UNCollector

IsDataUN == module = "data" /\ source = "un"

\* C29: data_collectors UNCollector requests both urls, in list order,
\* whether or not one of them fails; the records of the first url come before
\* those of the second and nothing a url gave is lost afterwards; the call
\* returns success with these records exactly when there is at least one,
\* and otherwise the failure 'No data found from UN websites'.
C29_BothUrlsAlways ==
  /\ [](IsDataUN /\ pc = "loop" => GetCodes = SubSeq(Data_UN_urls, 1, idx - 1))
  /\ [](IsDataUN /\ Returned =>
          /\ GetCodes = Data_UN_urls
          /\ (result.success = TRUE <=> all_data # <<>>)
          /\ (result.success = TRUE => result.data = all_data)
          /\ (result.success = FALSE => result.error = FStr(<<"No data found from UN websites">>))
          /\ \A i, j \in DOMAIN all_data :
               i < j /\ all_data[i].Source = "UNICEF" => all_data[j].Source = "UNICEF")
  /\ [][IsDataUN /\ pc = "loop" => IsPrefix(all_data, all_data')]_vars
\* the first url failed (no sleep follows its GET), the second was requested
\* all the same and its records were returned
C29_Witness ==
  /\ IsDataUN /\ Returned
  /\ Len(trace) >= 3 /\ trace[2] = Ev("get", Data_UN_urls[1]) /\ trace[3] = Ev("get", Data_UN_urls[2])
  /\ result.success = TRUE /\ result.data # <<>>
  /\ result.data[1].Source = "UNICEF"

----------------------------------------------------------------------------
\* Requests the fetch_data routes answer without a collector

\* a route has taken a request
Taken == app \in Apps /\ http # NoResponse
\* the request's JSON object lacks 'source' or 'data_type', or has it empty
Incomplete ==
  /\ http.request.json
  /\ (http.request.source \in {"", Absent} \/ http.request.data_type \in {"", Absent})

\* C30: the fetch_data routes answer a request whose 'source' or 'data_type'
\* is missing or empty with status 400 and an error payload, and a request
\* whose body is no JSON object (handling it raises) with status 500 and an
\* error payload; in both cases no collector is invoked, and no exception
\* leaves the route.
C30_BadRequestAnswered ==
  Taken =>
    /\ (Incomplete =>
          /\ http.answer # NoResponse /\ http.answer.status = 400
          /\ HasKey(http.answer.payload, "error") /\ ~HasKey(http.answer.payload, "data")
          /\ NothingInvoked)
    /\ (~http.request.json =>
          /\ http.answer # NoResponse /\ http.answer.status = 500
          /\ HasKey(http.answer.payload, "error") /\ ~HasKey(http.answer.payload, "data")
          /\ NothingInvoked)
    /\ ~HasKey(result, "raised")
    /\ (pc = "answered" => http.answer # NoResponse /\ http.answer.status \in {200, 500})
\* simple_app.py answered a body that is no JSON object with 500
C30_Witness ==
  /\ Taken /\ app = "simple_app" /\ http.request = NoJson
  /\ http.answer # NoResponse /\ http.answer.status = 500
  /\ NothingInvoked

====
